---- MODULE Spec2Model ----
(***************************************************************************)
(* A model of imagebackup: the image descriptors of the three backup       *)
(* formats (PartClone, PartImage, NtfsClone), their block indexes, the     *)
(* random-access service BlockIO and the sequential block readers.         *)
(*                                                                         *)
(* An image file is an input.  Every specification below starts from a     *)
(* descriptor that "open" has accepted, over a file drawn from a bounded   *)
(* set of well-formed, inconsistent and truncated files; its actions are   *)
(* the descriptor's operations.                                            *)
(***************************************************************************)
EXTENDS Integers, Sequences, FiniteSets, TLC

VARIABLES
    image,   \* the opened descriptor: header fields, bitmap, the file; and
             \* under "gen" what the writer of the file put into it
    index,   \* the descriptor's index: block_offsets or cluster_index
    call,    \* the last operation called on the descriptor and its outcome
    rd       \* the state of a running blockReader

vars == <<image, index, call, rd>>

----------------------------------------------------------------------------
(* Bounds of the model.                                                    *)

MaxCmds == 4            \* commands in an NtfsClone command stream
MaxClusters == 3        \* largest nr_clusters of an NtfsClone header
MaxBitmapBytes == 2     \* bytes of a bitmap

----------------------------------------------------------------------------
(* Outcomes of an operation: a value, None, an exception, or no return.    *)

Ok(v)      == [status |-> "ok",       value |-> v, data |-> << >>, exc |-> ""]
OkData(d)  == [status |-> "ok",       value |-> 0, data |-> d,     exc |-> ""]
None       == [status |-> "none",     value |-> 0, data |-> << >>, exc |-> ""]
Raise(e)   == [status |-> "raise",    value |-> 0, data |-> << >>, exc |-> e]
Diverges   == [status |-> "diverges", value |-> 0, data |-> << >>, exc |-> ""]

NoCall == [op |-> "none", arg |-> 0, arg2 |-> 0, result |-> None]
NoReader == [pc |-> "idle"]

----------------------------------------------------------------------------
(* Bytes and files.  A file is its bytes from position "base" on (what     *)
(* precedes the data section is the header the descriptor was built from). *)

Min(a, b) == IF a < b THEN a ELSE b
Max(a, b) == IF a > b THEN a ELSE b

Bit(byte, i) == (byte \div (2 ^ i)) % 2

BITS_SET == [b \in 0..255 |->
               Bit(b, 0) + Bit(b, 1) + Bit(b, 2) + Bit(b, 3)
             + Bit(b, 4) + Bit(b, 5) + Bit(b, 6) + Bit(b, 7)]

FileSize(f) == f.base + Len(f.bytes)

\* file.seek(pos); file.read(n): up to n bytes, fewer at the end of the file.
FileRead(f, pos, n) ==
    LET first == pos - f.base + 1
        last  == Min(first + n - 1, Len(f.bytes))
    IN  IF n <= 0 \/ first > Len(f.bytes) THEN << >>
        ELSE SubSeq(f.bytes, first, last)

\* b''.join(ss): the first half of the parts, then the others.
RECURSIVE Concat(_)
Concat(ss) ==
    IF ss = << >> THEN << >>
    ELSE IF Len(ss) = 1 THEN ss[1]
    ELSE LET half == Len(ss) \div 2
         IN  Concat(SubSeq(ss, 1, half)) \o Concat(SubSeq(ss, half + 1, Len(ss)))

\* struct.unpack('<Q', b): the model's counts fit in two bytes.
RECURSIVE UnpackLE(_)
UnpackLE(b) == IF b = << >> THEN 0 ELSE Head(b) + 256 * UnpackLE(Tail(b))

PackLE8(n) == <<n % 256, (n \div 256) % 256, 0, 0, 0, 0, 0, 0>>

----------------------------------------------------------------------------
(* 32-bit words are four bytes, least significant first (TLC's integers    *)
(* stop below 2^32).                                                       *)

ByteXor(a, b) ==
      ((Bit(a, 0) + Bit(b, 0)) % 2)
    + ((Bit(a, 1) + Bit(b, 1)) % 2) * 2
    + ((Bit(a, 2) + Bit(b, 2)) % 2) * 4
    + ((Bit(a, 3) + Bit(b, 3)) % 2) * 8
    + ((Bit(a, 4) + Bit(b, 4)) % 2) * 16
    + ((Bit(a, 5) + Bit(b, 5)) % 2) * 32
    + ((Bit(a, 6) + Bit(b, 6)) % 2) * 64
    + ((Bit(a, 7) + Bit(b, 7)) % 2) * 128

WordXor(v, w) == <<ByteXor(v[1], w[1]), ByteXor(v[2], w[2]),
                   ByteXor(v[3], w[3]), ByteXor(v[4], w[4])>>

WordShr1(w) == <<(w[1] \div 2) + 128 * (w[2] % 2),
                 (w[2] \div 2) + 128 * (w[3] % 2),
                 (w[3] \div 2) + 128 * (w[4] % 2),
                 w[4] \div 2>>

WordShr8(w) == <<w[2], w[3], w[4], 0>>

CRC32_POLY == <<32, 131, 184, 237>>       \* 0xedb88320
CRC32_SEED == <<255, 255, 255, 255>>      \* 0xffffffff

\* crc(byte), the entry of CRC32_TABLE: "steps" rounds are still to do.
RECURSIVE CrcRounds(_, _)
CrcRounds(w, steps) ==
    IF steps = 0 THEN w
    ELSE IF w[1] % 2 = 1
    THEN CrcRounds(WordXor(WordShr1(w), CRC32_POLY), steps - 1)
    ELSE CrcRounds(WordShr1(w), steps - 1)

CRC32_TABLE == [i \in 0..255 |-> CrcRounds(<<i, 0, 0, 0>>, 8)]

\* The loop of crc32 over the bytes lo..hi of the buffer, s being its locals
\* before byte lo: one byte, or the first half of the bytes and then the
\* others.
RECURSIVE CrcLoop(_, _, _, _)
CrcLoop(buffer, lo, hi, s) ==
    IF s.i > hi THEN s
    ELSE IF lo = hi
    THEN [i   |-> s.i + 1,
          crc |-> WordXor(WordShr8(s.crc),
                          CRC32_TABLE[ByteXor(s.crc[1], buffer[s.i])])]
    ELSE LET mid == (lo + hi) \div 2
         IN  CrcLoop(buffer, mid + 1, hi, CrcLoop(buffer, lo, mid, s))

\* crc32(buffer, seed)
crc32(buffer, seed) ==
    CrcLoop(buffer, 1, Len(buffer), [i |-> 1, crc |-> seed]).crc

\* struct.unpack(endian + 'L', b) and its inverse
UnpackL(endian, b) == IF endian = "<" THEN b ELSE <<b[4], b[3], b[2], b[1]>>
PackL(endian, w)   == IF endian = "<" THEN w ELSE <<w[4], w[3], w[2], w[1]>>

----------------------------------------------------------------------------
(* The descriptor's header accessors, by format.                           *)

\* blockSize()
BlockSize(img) ==
    IF img.tool = "partclone" THEN img.fs_block_size
    ELSE IF img.tool = "partimage" THEN img.blockSize
    ELSE img.cluster_size

\* totalSize()
TotalSize(img) ==
    IF img.tool = "partclone" THEN img.fs_total_size
    ELSE IF img.tool = "partimage" THEN img.partitionSize
    ELSE img.device_size

\* totalBlocks()
TotalBlocks(img) ==
    IF img.tool = "partclone" THEN img.fs_total_blocks
    ELSE IF img.tool = "partimage" THEN img.blockCount
    ELSE img.nr_clusters

\* usedBlocks()
UsedBlocks(img) ==
    IF img.tool = "partclone" THEN Max(img.fs_used_bitmap, img.fs_used_blocks)
    ELSE IF img.tool = "partimage" THEN img.usedBlocks
    ELSE img.inuse

\* blocksSectionOffset()
BlocksSectionOffset(img) ==
    IF img.tool = "partclone" THEN img.blocks_section
    ELSE IF img.tool = "partimage" THEN img.dataBlocksOffset
    ELSE -1

----------------------------------------------------------------------------
(* The bitmap and its block index (ImageBackup).  Bitmap bytes count from  *)
(* 0 in the code and from 1 in a sequence.                                 *)

BitmapByte(bitmap, i) == bitmap[i + 1]

BitSet(bitmap, k) == Bit(BitmapByte(bitmap, k \div 8), k % 8) = 1

\* sum(BITS_SET[b] for b in bitmap[idx1:idx2])
RECURSIVE BitsSetIn(_, _, _)
BitsSetIn(bitmap, idx1, idx2) ==
    IF idx1 >= idx2 \/ idx1 >= Len(bitmap) THEN 0
    ELSE BITS_SET[BitmapByte(bitmap, idx1)] + BitsSetIn(bitmap, idx1 + 1, idx2)

\* A mistaken index entry: it forgets the blocks since the last checksum.
BlockOffsetNoCksum(file_offset, cksum_offset) ==
    [file_offset |-> file_offset, cksum_offset |-> 0]

BlockOffset(file_offset, cksum_offset) ==
    [file_offset |-> file_offset, cksum_offset |-> cksum_offset]

\* The loop of ImageBackup.buildBlockIndex from bitmap byte idx1 on.
RECURSIVE BlockIndexFrom(_, _, _, _, _, _)
BlockIndexFrom(img, idx1, file_offset, blocks_chksum, block_offset, acc) ==
    IF idx1 >= Len(img.bitmap) THEN acc
    ELSE LET step  == img.block_offset_size \div 8
             bo    == IF file_offset # block_offset.file_offset
                      THEN BlockOffset(file_offset, blocks_chksum)
                      ELSE block_offset
             idx2  == Min(idx1 + step, Len(img.bitmap))
             inuse == BitsSetIn(img.bitmap, idx1, idx2)
             chk   == blocks_chksum + inuse
             fo    == file_offset + BlockSize(img) * inuse
             wrap  == img.checksum_blocks # 0 /\ chk >= img.checksum_blocks
         IN  BlockIndexFrom(img, idx1 + step,
                 IF wrap
                 THEN fo + img.checksum_size * (chk \div img.checksum_blocks)
                 ELSE fo,
                 IF wrap THEN chk % img.checksum_blocks ELSE chk,
                 bo, Append(acc, bo))

\* ImageBackup.buildBlockIndex: the index it leaves in block_offsets.
BuildBlockIndex(img, block_offsets) ==
    IF Len(block_offsets) # 0 THEN block_offsets
    ELSE BlockIndexFrom(img, 0, BlocksSectionOffset(img), 0,
                        BlockOffset(BlocksSectionOffset(img), 0), << >>)

\* ImageBackup.blockInUse
BlockInUse(img, block_no) ==
    IF block_no < 0 \/ block_no \div 8 >= Len(img.bitmap)
    THEN Raise("ImageBackupException")
    ELSE Ok(Bit(BitmapByte(img.bitmap, block_no \div 8), block_no % 8))

\* ImageBackup.getBlockOffset: the outcome and the index it leaves behind.
GetBlockOffset(img, block_offsets, block_no) ==
    LET used == BlockInUse(img, block_no) IN
    IF used.status = "raise"
    THEN [result |-> used, block_offsets |-> block_offsets]
    ELSE IF used.value = 0
    THEN [result |-> None, block_offsets |-> block_offsets]
    ELSE LET offsets          == BuildBlockIndex(img, block_offsets)
             block_offset_idx == block_no \div img.block_offset_size
             block_offset     == offsets[block_offset_idx + 1]
             bm_idx1          == block_offset_idx
                                     * (img.block_offset_size \div 8)
             bm_idx2          == block_no \div 8
             inuse_blocks     ==
                 BitsSetIn(img.bitmap, bm_idx1, bm_idx2)
               + BITS_SET[BitmapByte(img.bitmap, bm_idx2)
                              % (2 ^ (block_no % 8))]
             blocks_cksum     == block_offset.cksum_offset + inuse_blocks
             file_offset      == block_offset.file_offset
                                     + BlockSize(img) * inuse_blocks
         IN  [result |->
                 Ok(IF img.checksum_blocks # 0
                       /\ blocks_cksum >= img.checksum_blocks
                    THEN file_offset + img.checksum_size
                             * (blocks_cksum \div img.checksum_blocks)
                    ELSE file_offset),
              block_offsets |-> offsets]

----------------------------------------------------------------------------
(* NtfsClone: the cluster-range index.                                     *)

ClusterRange(used, start, size, offset) ==
    [used |-> used, start |-> start, size |-> size, offset |-> offset]

RangeEnd(r) == r.start + r.size

\* A scan that takes the place of the command byte for that of the cluster.
RECURSIVE NtfsScanCmdByte(_, _, _, _, _, _)
NtfsScanCmdByte(img, pos, offset, cluster_no, cur_range, ranges) ==
    LET cmd == FileRead(img.file, pos, 1) IN
    IF Len(cmd) = 0
    THEN [ranges |-> Append(ranges, cur_range), exc |-> ""]
    ELSE IF cmd[1] = 0
    THEN LET cnt == FileRead(img.file, pos + 1, 8) IN
         IF Len(cnt) < 8
         THEN [ranges |-> ranges, exc |-> "struct.error"]
         ELSE LET count == UnpackLE(cnt)
                  rs    == IF cluster_no # 0 THEN Append(ranges, cur_range)
                                             ELSE ranges
              IN  NtfsScanCmdByte(img, pos + 9, offset + 9, cluster_no + count,
                           ClusterRange(FALSE, cluster_no, count, -1), rs)
    ELSE IF cmd[1] = 1
    THEN IF offset + 1 # pos + 1
         THEN [ranges |-> ranges, exc |-> "AssertionError"]
         ELSE IF cluster_no > img.nr_clusters
         THEN [ranges |-> ranges, exc |-> "NtfsCloneException"]
         ELSE LET got == Len(FileRead(img.file, pos + 1, img.cluster_size)) IN
              IF cur_range.used
              THEN NtfsScanCmdByte(img, pos + 1 + got, offset + 1 + img.cluster_size,
                            cluster_no + 1,
                            [cur_range EXCEPT !.size = @ + 1], ranges)
              ELSE NtfsScanCmdByte(img, pos + 1 + got, offset + 1 + img.cluster_size,
                            cluster_no + 1,
                            ClusterRange(TRUE, cluster_no, 1, offset),
                            IF cluster_no # 0 THEN Append(ranges, cur_range)
                                              ELSE ranges)
    ELSE [ranges |-> ranges, exc |-> "NtfsCloneException"]

\* NtfsClone.buildBlockIndex, the scan of the command stream from "pos" on.
\* "offset" is the position the code counts, "pos" the file's own position.
RECURSIVE NtfsScan(_, _, _, _, _, _)
NtfsScan(img, pos, offset, cluster_no, cur_range, ranges) ==
    LET cmd == FileRead(img.file, pos, 1) IN
    IF Len(cmd) = 0
    THEN [ranges |-> Append(ranges, cur_range), exc |-> ""]
    ELSE IF cmd[1] = 0
    THEN LET cnt == FileRead(img.file, pos + 1, 8) IN
         IF Len(cnt) < 8
         THEN [ranges |-> ranges, exc |-> "struct.error"]
         ELSE LET count == UnpackLE(cnt)
                  rs    == IF cluster_no # 0 THEN Append(ranges, cur_range)
                                             ELSE ranges
              IN  NtfsScan(img, pos + 9, offset + 9, cluster_no + count,
                           ClusterRange(FALSE, cluster_no, count, -1), rs)
    ELSE IF cmd[1] = 1
    THEN IF offset + 1 # pos + 1
         THEN [ranges |-> ranges, exc |-> "AssertionError"]
         ELSE IF cluster_no > img.nr_clusters
         THEN [ranges |-> ranges, exc |-> "NtfsCloneException"]
         ELSE LET got == Len(FileRead(img.file, pos + 1, img.cluster_size)) IN
              IF cur_range.used
              THEN NtfsScan(img, pos + 1 + got, offset + 1 + img.cluster_size,
                            cluster_no + 1,
                            [cur_range EXCEPT !.size = @ + 1], ranges)
              ELSE NtfsScan(img, pos + 1 + got, offset + 1 + img.cluster_size,
                            cluster_no + 1,
                            ClusterRange(TRUE, cluster_no, 1, offset + 1),
                            IF cluster_no # 0 THEN Append(ranges, cur_range)
                                              ELSE ranges)
    ELSE [ranges |-> ranges, exc |-> "NtfsCloneException"]

NtfsBuildBlockIndex(img) ==
    NtfsScan(img, img.offset_to_image_data, img.offset_to_image_data, 0,
             ClusterRange(FALSE, 0, 0, -1), << >>)

\* The while loop of ClusterIndex.offset; l, r and m count from 0.  The loop
\* repeats one iteration for ever when it leaves both l and r unchanged.
RECURSIVE BinarySearch(_, _, _, _)
BinarySearch(ranges, cluster, l, r) ==
    IF l >= r THEN [l |-> l, loops |-> FALSE]
    ELSE LET m == (l + r) \div 2 IN
         IF cluster < ranges[m + 1].start
         THEN BinarySearch(ranges, cluster, l, m)
         ELSE IF cluster < RangeEnd(ranges[m + 1])
         THEN [l |-> m, loops |-> FALSE]
         ELSE IF m = l
         THEN [l |-> l, loops |-> TRUE]
         ELSE BinarySearch(ranges, cluster, m, r)

\* A plausible slip: the stride of a stored cluster without its command byte.
ClusterIndexOffsetNoCmdByte(ranges, cluster_size, cluster) ==
    LET s == BinarySearch(ranges, cluster, 0, Len(ranges)) IN
    IF s.loops THEN Diverges
    ELSE IF s.l + 1 > Len(ranges) THEN Raise("IndexError")
    ELSE LET cr == ranges[s.l + 1] IN
         IF ~(cluster >= cr.start /\ cluster < RangeEnd(cr))
         THEN Raise("AssertionError")
         ELSE IF cr.used
         THEN Ok(cr.offset + (cluster - cr.start) * cluster_size)
         ELSE None

\* ClusterIndex.offset
ClusterIndexOffset(ranges, cluster_size, cluster) ==
    LET s == BinarySearch(ranges, cluster, 0, Len(ranges)) IN
    IF s.loops THEN Diverges
    ELSE IF s.l + 1 > Len(ranges) THEN Raise("IndexError")
    ELSE LET cr == ranges[s.l + 1] IN
         IF ~(cluster >= cr.start /\ cluster < RangeEnd(cr))
         THEN Raise("AssertionError")
         ELSE IF cr.used
         THEN Ok(cr.offset + (cluster - cr.start) * (cluster_size + 1))
         ELSE None

\* NtfsClone.getBlockOffset: the outcome and the index it leaves behind.
NtfsGetBlockOffset(img, ranges, block_no) ==
    IF block_no < 0 \/ block_no > img.nr_clusters
    THEN [result |-> Raise("NtfsCloneException"), ranges |-> ranges]
    ELSE IF Len(ranges) = 0
    THEN LET b == NtfsBuildBlockIndex(img) IN
         IF b.exc # ""
         THEN [result |-> Raise(b.exc), ranges |-> b.ranges]
         ELSE [result |-> ClusterIndexOffset(b.ranges, img.cluster_size,
                                             block_no),
               ranges |-> b.ranges]
    ELSE [result |-> ClusterIndexOffset(ranges, img.cluster_size, block_no),
          ranges |-> ranges]

\* NtfsClone.blockInUse
NtfsBlockInUse(img, ranges, block_no) ==
    LET g == NtfsGetBlockOffset(img, ranges, block_no) IN
    [result |-> IF g.result.status = "ok" THEN Ok(1)
                ELSE IF g.result.status = "none" THEN Ok(0)
                ELSE g.result,
     ranges |-> g.ranges]

----------------------------------------------------------------------------
(* BlockIO: reads of the logical partition.                                *)

\* image.getBlockOffset(block_no), by format
ImageGetBlockOffset(img, idx, block_no) ==
    IF img.tool = "ntfsclone"
    THEN LET g == NtfsGetBlockOffset(img, idx, block_no) IN
         [result |-> g.result, index |-> g.ranges]
    ELSE LET g == GetBlockOffset(img, idx, block_no) IN
         [result |-> g.result, index |-> g.block_offsets]

\* image.blockInUse(block_no), by format
ImageBlockInUse(img, idx, block_no) ==
    IF img.tool = "ntfsclone"
    THEN LET g == NtfsBlockInUse(img, idx, block_no) IN
         [result |-> g.result, index |-> g.ranges]
    ELSE [result |-> BlockInUse(img, block_no), index |-> idx]

\* image.buildBlockIndex(), by format
ImageBuildBlockIndex(img, idx) ==
    IF img.tool = "ntfsclone"
    THEN IF Len(idx) # 0 THEN [index |-> idx, exc |-> ""]
         ELSE LET b == NtfsBuildBlockIndex(img) IN
              [index |-> b.ranges, exc |-> b.exc]
    ELSE [index |-> BuildBlockIndex(img, idx), exc |-> ""]

\* BlockIO.__init__: total_blocks and total_size
BlockIOTotalBlocks(img) ==
    (TotalSize(img) + BlockSize(img) - 1) \div BlockSize(img)

BlockIOTotalSize(img) == BlockSize(img) * BlockIOTotalBlocks(img)

\* block[idx1:idx2]
Slice(s, idx1, idx2) ==
    IF idx1 >= Min(idx2, Len(s)) THEN << >>
    ELSE SubSeq(s, idx1 + 1, Min(idx2, Len(s)))

\* The for loop of BlockIO.read_data from block_no on.
RECURSIVE ReadBlocks(_, _, _, _, _, _)
ReadBlocks(img, idx, offset, size, block_no, output) ==
    LET block_size == BlockSize(img)
        min_block  == offset \div block_size
        max_block  == (offset + size - 1) \div block_size
    IN
    IF block_no > max_block THEN OkData(output)
    ELSE LET idx1 == IF block_no = min_block THEN offset % block_size ELSE 0
             idx2 == IF block_no = max_block
                     THEN ((offset + size - 1) % block_size) + 1
                     ELSE block_size
             image_file_offset == ImageGetBlockOffset(img, idx, block_no).result
         IN  IF image_file_offset.status \in {"raise", "diverges"}
             THEN image_file_offset
             ELSE LET block == IF image_file_offset.status = "none"
                               THEN [i \in 1..block_size |-> 0]
                               ELSE FileRead(img.file, image_file_offset.value,
                                             block_size)
                  IN  ReadBlocks(img, idx, offset, size, block_no + 1,
                                 output \o Slice(block, idx1, idx2))

\* BlockIO.read_data(offset, size) on an index that __init__ has built
ReadData(img, idx, offset, size) ==
    LET total_size == BlockIOTotalSize(img)
        sz == IF offset + size > total_size
              THEN Max(0, total_size - offset)
              ELSE size
    IN  IF sz > 0
        THEN ReadBlocks(img, idx, offset, sz, offset \div BlockSize(img), << >>)
        ELSE OkData(<< >>)

----------------------------------------------------------------------------
(* PartClone: the part of open that follows the header, and the images.    *)

PARTCLONE_READ_SIZE == 110

\* The mask that clears nothing.
MaskNothing(bitmap, total_blocks) == bitmap

\* bitmap[:-1] + bytes([bitmap[-1] & mask])
MaskLastByte(bitmap, total_blocks) ==
    IF total_blocks % 8 # 0 /\ Len(bitmap) > 0
    THEN [bitmap EXCEPT ![Len(bitmap)] = @ % (2 ^ (total_blocks % 8))]
    ELSE bitmap

\* PartClone.__init__ from the header fields on: the descriptor or the error.
PartCloneOpen(src) ==
    LET h      == src.header
        size   == (h.fs_total_blocks + 7) \div 8
        bitmap == SubSeq(src.bitmap, 1, Min(size, Len(src.bitmap)))
        masked == MaskLastByte(bitmap, h.fs_total_blocks)
    IN
    IF h.checksum_mode \notin {0, 32} THEN [exc |-> "PartCloneException"]
    ELSE IF Len(bitmap) # size THEN [exc |-> "PartCloneException"]
    ELSE IF src.block_offset_size % 8 # 0 THEN [exc |-> "PartCloneException"]
    ELSE IF BitsSetIn(masked, 0, Len(masked))
               # Max(h.fs_used_bitmap, h.fs_used_blocks)
    THEN [exc |-> "PartCloneException"]
    ELSE [exc |-> "",
          image |->
            [tool |-> "partclone",
             fs_total_size   |-> h.fs_total_size,
             fs_total_blocks |-> h.fs_total_blocks,
             fs_used_blocks  |-> h.fs_used_blocks,
             fs_used_bitmap  |-> h.fs_used_bitmap,
             fs_block_size   |-> h.fs_block_size,
             checksum_mode   |-> h.checksum_mode,
             checksum_size   |-> h.checksum_size,
             checksum_blocks |-> h.checksum_blocks,
             checksum_reseed |-> h.checksum_reseed,
             endian          |-> h.endian,
             bitmap          |-> masked,
             blocks_section  |-> PARTCLONE_READ_SIZE + size + 4,
             block_offset_size |-> src.block_offset_size,
             file |-> [base |-> PARTCLONE_READ_SIZE + size + 4,
                       bytes |-> src.data],
             gen |-> src.gen]]

\* What a writer stores for logical block k: no byte of it is zero.
BlockBytes(k, block_size) ==
    [j \in 1..block_size |-> ((k * block_size + j - 1) % 200) + 1]

\* The block numbers below "total" whose bit is set, ascending.
RECURSIVE UsedBlockList(_, _, _)
UsedBlockList(bitmap, k, total) ==
    IF k >= total \/ k >= 8 * Len(bitmap) THEN << >>
    ELSE IF BitSet(bitmap, k) THEN <<k>> \o UsedBlockList(bitmap, k + 1, total)
    ELSE UsedBlockList(bitmap, k + 1, total)

\* The data section a PartClone writer produces for the blocks from the
\* i-th on: each block, and in mode 32 the running CRC after every
\* checksum_blocks blocks and after the last block of an incomplete group.
RECURSIVE PartCloneData(_, _, _, _)
PartCloneData(h, blocks, i, seed) ==
    IF i > Len(blocks) THEN << >>
    ELSE LET block == BlockBytes(blocks[i], h.fs_block_size)
             crc   == crc32(block, seed)
             check == h.checksum_mode = 32 /\ h.checksum_blocks > 0
                      /\ (i % h.checksum_blocks = 0 \/ i = Len(blocks))
         IN  block
             \o (IF check THEN PackL(h.endian, crc) ELSE << >>)
             \o PartCloneData(h, blocks, i + 1,
                    IF check /\ h.checksum_reseed # 0 THEN CRC32_SEED ELSE crc)

----------------------------------------------------------------------------
(* NtfsClone images.  The writer's commands: an unused run with its count, *)
(* one stored cluster, or a byte that is no command.                       *)

UnusedCmd(n) == [cmd |-> 0, count |-> n]
UsedCmd      == [cmd |-> 1, count |-> 1]
BadCmd       == [cmd |-> 2, count |-> 0]

NtfsCmds == {UnusedCmd(0), UnusedCmd(2), UsedCmd, BadCmd}

\* The bytes of a stored cluster are 1, the value of a command byte.
EncodeCmd(c, cluster_size) ==
    IF c.cmd = 0 THEN <<0>> \o PackLE8(c.count)
    ELSE IF c.cmd = 1 THEN <<1>> \o [i \in 1..cluster_size |-> 1]
    ELSE <<c.cmd>>

EncodeCmds(cmds, cluster_size) ==
    Concat([i \in 1..Len(cmds) |-> EncodeCmd(cmds[i], cluster_size)])

SeqsUpTo(S, n) == UNION {[1..k -> S] : k \in 0..n}

NtfsImage(cmds, cluster_size, nr_clusters, inuse, cut) ==
    LET bytes == EncodeCmds(cmds, cluster_size) IN
    [tool |-> "ntfsclone",
     cluster_size |-> cluster_size,
     nr_clusters |-> nr_clusters,
     inuse |-> inuse,
     device_size |-> nr_clusters * cluster_size,
     offset_to_image_data |-> 56,
     file |-> [base |-> 56,
               bytes |-> SubSeq(bytes, 1, Max(0, Len(bytes) - cut))],
     gen |-> [cmds |-> cmds, cut |-> cut]]

NtfsImages ==
    {NtfsImage(cmds, 2, n, n, cut) :
        cmds \in SeqsUpTo(NtfsCmds, MaxCmds),
        n \in 0..MaxClusters, cut \in {0, 1}}

\* The image of 20 clusters with the commands [0x00, count 10], 0x01 three
\* times, [0x00, count 5], 0x01 twice, for a cluster size.
ExampleImage(cluster_size) ==
    NtfsImage(<<UnusedCmd(10), UsedCmd, UsedCmd, UsedCmd, UnusedCmd(5),
                UsedCmd, UsedCmd>>, cluster_size, 20, 5, 0)

ExampleImages == {ExampleImage(cs) : cs \in {1, 2, 4}}

----------------------------------------------------------------------------
(* PartClone and PartImage images for random access.  Blocks are two bytes *)
(* long, so that a read can start and end inside a block.                  *)

SmallBlockSize == 2

BitmapBytes == {0, 22, 255}

Bitmaps == UNION {[1..n -> BitmapBytes] : n \in 1..MaxBitmapBytes}

\* checksum_mode, checksum_size, checksum_blocks of a PartClone header: CRC32
\* after every block or every third block, none, and none with the other
\* two fields left set.
ChecksumFields ==
    {[mode |-> 32, size |-> 4, blocks |-> 1],
     [mode |-> 32, size |-> 4, blocks |-> 3],
     [mode |-> 0,  size |-> 0, blocks |-> 0],
     [mode |-> 0,  size |-> 4, blocks |-> 3]}

PartCloneHeader(bitmap, total_blocks, total_size, block_size, c, reseed, endian) ==
    LET used == BitsSetIn(MaskLastByte(bitmap, total_blocks), 0, Len(bitmap))
    IN  [fs_total_size   |-> total_size,
         fs_total_blocks |-> total_blocks,
         fs_used_blocks  |-> used,
         fs_used_bitmap  |-> used,
         fs_block_size   |-> block_size,
         checksum_mode   |-> c.mode,
         checksum_size   |-> c.size,
         checksum_blocks |-> c.blocks,
         checksum_reseed |-> reseed,
         endian          |-> endian]

\* The file a writer produces, without its last "cut" bytes.
PartCloneSource(bitmap, total_blocks, total_size, block_size, c, reseed, endian, stride, cut) ==
    LET h    == PartCloneHeader(bitmap, total_blocks, total_size, block_size,
                                c, reseed, endian)
        data == PartCloneData(h, UsedBlockList(bitmap, 0, total_blocks), 1,
                              CRC32_SEED)
    IN  [header |-> h,
         bitmap |-> bitmap,
         block_offset_size |-> stride,
         data |-> SubSeq(data, 1, Max(0, Len(data) - cut)),
         gen |-> [cut |-> cut, flip |-> 0]]

\* A PartClone file for a bitmap: total_blocks is the number of bits of the
\* bitmap less "less"; total_size is that of the blocks or, with "beyond",
\* of one block more than the bitmap has bits.
PartCloneIndexSource(bm, less, beyond, c, stride, cut) ==
    LET tb == 8 * Len(bm) - less
        ts == IF beyond THEN (8 * Len(bm) + 1) * SmallBlockSize
                        ELSE tb * SmallBlockSize
    IN  PartCloneSource(bm, tb, ts, SmallBlockSize, c, 1, "<", stride, cut)

\* How the header and the file of an image for random access differ from
\* the plain ones: the last three bits of the bitmap are padding, the total
\* size lies beyond the bitmap, or the last byte of the file is cut off.
IndexVariants ==
    {[less |-> 0, beyond |-> FALSE, cut |-> 0],
     [less |-> 3, beyond |-> FALSE, cut |-> 0],
     [less |-> 0, beyond |-> TRUE,  cut |-> 0],
     [less |-> 3, beyond |-> FALSE, cut |-> 1]}

PartCloneIndexImages ==
    {PartCloneOpen(PartCloneIndexSource(bm, v.less, v.beyond, c, stride,
                                        v.cut)).image :
        bm \in Bitmaps, v \in IndexVariants, c \in ChecksumFields,
        stride \in {8, 16}}

\* PartImage: the sizes of its headers and of its check records.
PARTIMAGE_CHECK_FREQUENCY == 65536
PARTIMAGE_CHECK_SIZE == 16
VOLUME_HEADER_SIZE == 512
HEADER_SIZE == 16388

\* sum(b) of a bytes object b
RECURSIVE SumOf(_)
SumOf(b) == IF b = << >> THEN 0 ELSE Head(b) + SumOf(Tail(b))

----------------------------------------------------------------------------
(* The specifications of random access: the operations of a descriptor    *)
(* and of the BlockIO over it, called one after the other in any order.   *)

InitBitmapIndex ==
    /\ image \in PartCloneIndexImages
    /\ index = << >>
    /\ call = NoCall
    /\ rd = NoReader

InitNtfsIndex ==
    /\ image \in NtfsImages \cup ExampleImages
    /\ index = << >>
    /\ call = NoCall
    /\ rd = NoReader

\* The block numbers the operations are called with: those of the image,
\* -1, and some past the end.
BlockArgs(img) ==
    IF img.tool = "ntfsclone" THEN -1 .. img.nr_clusters + 1
    ELSE -1 .. 8 * Len(img.bitmap) + 1

\* image.buildBlockIndex()
BuildIndex ==
    /\ call = NoCall
    /\ LET b == ImageBuildBlockIndex(image, index) IN
         /\ index' = b.index
         /\ call' = [op |-> "buildBlockIndex", arg |-> 0, arg2 |-> 0,
                     result |-> IF b.exc = "" THEN None ELSE Raise(b.exc)]
    /\ UNCHANGED <<image, rd>>

\* image.getBlockOffset(block_no)
GetOffset ==
    /\ call = NoCall
    /\ \E block_no \in BlockArgs(image) :
         LET g == ImageGetBlockOffset(image, index, block_no) IN
         /\ index' = g.index
         /\ call' = [op |-> "getBlockOffset", arg |-> block_no, arg2 |-> 0,
                     result |-> g.result]
    /\ UNCHANGED <<image, rd>>

\* image.blockInUse(block_no)
InUse ==
    /\ call = NoCall
    /\ \E block_no \in BlockArgs(image) :
         LET g == ImageBlockInUse(image, index, block_no) IN
         /\ index' = g.index
         /\ call' = [op |-> "blockInUse", arg |-> block_no, arg2 |-> 0,
                     result |-> g.result]
    /\ UNCHANGED <<image, rd>>

\* The sizes read_data is called with.
ReadSizes(img) == {0, 1, BlockSize(img) + 1, BlockIOTotalSize(img)}

\* BlockIO(image).read_data(offset, size); BlockIO.__init__ builds the index.
Read ==
    /\ call = NoCall
    /\ LET b == ImageBuildBlockIndex(image, index) IN
         /\ index' = b.index
         /\ IF b.exc # ""
            THEN call' = [op |-> "BlockIO", arg |-> 0, arg2 |-> 0,
                          result |-> Raise(b.exc)]
            ELSE \E offset \in 0 .. BlockIOTotalSize(image) + 1,
                    size \in ReadSizes(image) :
                   call' = [op |-> "read_data", arg |-> offset, arg2 |-> size,
                            result |-> ReadData(image, b.index, offset, size)]
    /\ UNCHANGED <<image, rd>>

\* The caller takes the outcome and is free to call again.
Return ==
    /\ call # NoCall
    /\ call.result.status # "diverges"
    /\ call' = NoCall
    /\ UNCHANGED <<image, index, rd>>

NextIndex == BuildIndex \/ GetOffset \/ InUse \/ Read \/ Return

SpecBitmapIndex == InitBitmapIndex /\ [][NextIndex]_vars

SpecNtfsIndex == InitNtfsIndex /\ [][NextIndex]_vars

----------------------------------------------------------------------------
(* Sequential readers.  rd holds a blockReader run: its local variables,   *)
(* the position of the file, what the callback fn was called with          *)
(* ("calls"), the blocks read ("read") and the checks made ("checks").     *)

\* The run ends with exception e.
Failed(r, e) == [r EXCEPT !.pc = "done", !.exc = e]

\* fn(offset, block) for block number block_no
Called(r, block_no, offset, block) ==
    [r EXCEPT !.calls = Append(@, [block_no |-> block_no, offset |-> offset,
                                   block |-> block])]

\* seed = -1, without verify_crc
NoSeed == <<-1>>

\* A mistaken period: the check falls due one block early.
InlineCheckDueEarly(checksum_blocks, blocks_read) ==
    checksum_blocks # 0 /\ (blocks_read + 1) % checksum_blocks = 0

\* checksum_blocks and blocks_read % checksum_blocks == 0
InlineCheckDue(checksum_blocks, blocks_read) ==
    checksum_blocks # 0 /\ blocks_read % checksum_blocks = 0

\* struct.unpack(f'{endian}L', self.file.read(checksum_size))[0]
ReadChecksum(img, pos) ==
    LET b == FileRead(img.file, pos, img.checksum_size) IN
    IF Len(b) # 4 THEN [exc |-> "struct.error", crc |-> NoSeed, got |-> Len(b)]
    ELSE [exc |-> "", crc |-> UnpackL(img.endian, b), got |-> 4]

\* The locals of PartClone.blockReader before its loop.
PartCloneReaderStart(img, verify_crc) ==
    [pc |-> "blocks", verify |-> verify_crc, block_no |-> 0,
     blocks_read |-> 0, seed |-> CRC32_SEED, pos |-> img.blocks_section,
     calls |-> << >>, read |-> << >>, checks |-> << >>, exc |-> ""]

\* PartClone.blockReader, one turn of its loops: a zero byte of the bitmap
\* is skipped, or the bit of block_no is looked at and its block is read.
PartCloneReadBit(img, r) ==
    LET byte == img.bitmap[(r.block_no \div 8) + 1]
        block_size == img.fs_block_size
        block == FileRead(img.file, r.pos, block_size)
        blocks_read == r.blocks_read + 1
        seed == IF img.checksum_mode # 32 THEN r.seed
                ELSE IF r.verify THEN crc32(block, r.seed) ELSE NoSeed
        chk == ReadChecksum(img, r.pos + block_size)
        r1 == [r EXCEPT !.blocks_read = blocks_read, !.seed = seed,
                        !.read = Append(@, block),
                        !.pos = @ + Len(block)]
        r2 == [r1 EXCEPT !.pos = @ + chk.got,
                         !.checks = Append(@, [after |-> blocks_read,
                                               stored |-> chk.crc,
                                               seed |-> seed,
                                               final |-> FALSE])]
        fn(q) == [Called(q, r.block_no, r.block_no * block_size, block)
                    EXCEPT !.block_no = @ + 1]
    IN
    IF r.block_no % 8 = 0 /\ byte = 0 THEN [r EXCEPT !.block_no = @ + 8]
    ELSE IF Bit(byte, r.block_no % 8) = 0 THEN [r EXCEPT !.block_no = @ + 1]
    ELSE IF Len(block) # block_size
    THEN Failed([r EXCEPT !.pos = @ + Len(block)], "PartCloneException")
    ELSE IF ~(img.checksum_mode = 32
                /\ InlineCheckDue(img.checksum_blocks, blocks_read))
    THEN fn(r1)
    ELSE IF chk.exc # "" THEN Failed([r1 EXCEPT !.pos = @ + chk.got], chk.exc)
    ELSE IF seed # NoSeed /\ chk.crc # seed
    THEN Failed(r2, "PartCloneException")
    ELSE fn([r2 EXCEPT !.seed = IF img.checksum_reseed # 0 THEN CRC32_SEED
                                ELSE seed])

\* A blockReader that does not look for data after the end of the backup.
PartCloneReadEndNoEof(img, r) ==
    LET due == img.checksum_mode # 0 /\ img.checksum_blocks # 0
               /\ r.blocks_read % img.checksum_blocks # 0
        chk == ReadChecksum(img, r.pos)
        r2  == IF due
               THEN [r EXCEPT !.pos = @ + chk.got,
                              !.checks = Append(@, [after |-> r.blocks_read,
                                                    stored |-> chk.crc,
                                                    seed |-> r.seed,
                                                    final |-> TRUE])]
               ELSE r
    IN
    IF due /\ chk.exc # "" THEN Failed([r EXCEPT !.pos = @ + chk.got], chk.exc)
    ELSE IF due /\ r.seed # NoSeed /\ chk.crc # r.seed
    THEN Failed(r2, "PartCloneException")
    ELSE [r2 EXCEPT !.pc = "done"]

\* PartClone.blockReader after its loop: the final check and the end of file.
PartCloneReadEnd(img, r) ==
    LET due == img.checksum_mode # 0 /\ img.checksum_blocks # 0
               /\ r.blocks_read % img.checksum_blocks # 0
        chk == ReadChecksum(img, r.pos)
        r2  == IF due
               THEN [r EXCEPT !.pos = @ + chk.got,
                              !.checks = Append(@, [after |-> r.blocks_read,
                                                    stored |-> chk.crc,
                                                    seed |-> r.seed,
                                                    final |-> TRUE])]
               ELSE r
    IN
    IF due /\ chk.exc # "" THEN Failed([r EXCEPT !.pos = @ + chk.got], chk.exc)
    ELSE IF due /\ r.seed # NoSeed /\ chk.crc # r.seed
    THEN Failed(r2, "PartCloneException")
    ELSE IF Len(FileRead(img.file, r2.pos, img.fs_block_size)) # 0
    THEN Failed([r2 EXCEPT !.pos = @ + Len(FileRead(img.file, r2.pos,
                                                    img.fs_block_size))],
                "PartCloneException")
    ELSE [r2 EXCEPT !.pc = "done"]

\* The locals of NtfsClone.blockReader before its loop.
NtfsReaderStart(img) ==
    [pc |-> "blocks", pos |-> img.offset_to_image_data, cluster |-> 0,
     blocks_read |-> 0, calls |-> << >>, exc |-> ""]

\* NtfsClone.blockReader, one turn of its loop: one command of the stream.
\* The file stands after the bytes that were read, also when the turn
\* raises: after the command byte, and after what there is of the count.
NtfsReadCmd(img, r) ==
    LET cmd   == FileRead(img.file, r.pos, 1)
        cnt   == FileRead(img.file, r.pos + 1, 8)
        block == FileRead(img.file, r.pos + 1, img.cluster_size)
        r1    == [r EXCEPT !.pos = @ + 1]
    IN
    IF Len(cmd) = 0 THEN [r EXCEPT !.pc = "done"]
    ELSE IF cmd[1] = 0
    THEN IF Len(cnt) < 8
         THEN Failed([r1 EXCEPT !.pos = @ + Len(cnt)], "struct.error")
         ELSE [r1 EXCEPT !.pos = @ + 8, !.cluster = @ + UnpackLE(cnt)]
    ELSE IF cmd[1] = 1
    THEN IF r.cluster > img.nr_clusters THEN Failed(r1, "NtfsCloneException")
         ELSE [Called(r1, r.cluster, r.cluster * img.cluster_size, block)
                 EXCEPT !.pos = @ + Len(block), !.cluster = @ + 1,
                        !.blocks_read = @ + 1]
    ELSE Failed(r1, "NtfsCloneException")

----------------------------------------------------------------------------
(* PartImage: usedBlocksRange and blockReader.  The data section is a      *)
(* sequence of items, each a block, a check record or the tail, with the   *)
(* number of its bytes that the file holds.  A CRC is the sequence of the  *)
(* blocks it was computed over and the global checksum the sequence of     *)
(* the items it was summed over: two of them are equal iff they were       *)
(* computed over the same data.                                            *)

\* The while and for loops of usedBlocksRange that walk the bits of "byte"
\* from bit_idx on: "ret" is set where the loop returns from the method.
RECURSIVE ScanBits(_, _, _, _, _)
ScanBits(byte, byte_idx, bit_idx, start_idx, length) ==
    IF bit_idx >= 8
    THEN [ret |-> FALSE, start_idx |-> start_idx, length |-> length]
    ELSE IF Bit(byte, bit_idx) = 1
    THEN ScanBits(byte, byte_idx, bit_idx + 1,
                  IF length = 0 THEN 8 * byte_idx + bit_idx ELSE start_idx,
                  length + 1)
    ELSE IF length # 0
    THEN [ret |-> TRUE, start_idx |-> start_idx, length |-> length]
    ELSE ScanBits(byte, byte_idx, bit_idx + 1, start_idx, length)

\* while byte_idx < len(bitmap) and bitmap[byte_idx] == value: byte_idx += 1
RECURSIVE SkipBytes(_, _, _)
SkipBytes(bitmap, byte_idx, value) ==
    IF byte_idx < Len(bitmap) /\ bitmap[byte_idx + 1] = value
    THEN SkipBytes(bitmap, byte_idx + 1, value)
    ELSE byte_idx

\* The loop of usedBlocksRange over bytes 0xff and what follows it.
RECURSIVE ExtendRun(_, _, _, _, _)
ExtendRun(bitmap, max_block_range, byte_idx, start_idx, length) ==
    IF byte_idx < Len(bitmap) /\ bitmap[byte_idx + 1] = 255
    THEN IF length + 8 >= max_block_range
         THEN [exc |-> "", start |-> start_idx, length |-> max_block_range]
         ELSE ExtendRun(bitmap, max_block_range, byte_idx + 1, start_idx,
                        length + 8)
    ELSE IF byte_idx >= Len(bitmap)
    THEN [exc |-> "", start |-> start_idx, length |-> length]
    ELSE LET byte == bitmap[byte_idx + 1]
             ones == CHOOSE n \in 0..8 :
                        /\ \A i \in 0 .. n - 1 : Bit(byte, i) = 1
                        /\ n < 8 => Bit(byte, n) = 0
         IN  [exc |-> "", start |-> start_idx,
              length |-> Min(length + ones, max_block_range)]

\* PartImage.usedBlocksRange(idx)
UsedBlocksRange(bitmap, max_block_range, idx) ==
    LET byte_idx == idx \div 8
        bit_idx  == idx % 8
    IN
    IF ~(byte_idx < Len(bitmap)) THEN [exc |-> "AssertionError"]
    ELSE
    LET byte  == bitmap[byte_idx + 1]
        \* byte &= ((1 << bit_idx) - 1) ^ 255
        first == byte - (byte % (2 ^ bit_idx))
        s1 == IF first # 0 THEN ScanBits(first, byte_idx, bit_idx, -1, 0)
              ELSE [ret |-> FALSE, start_idx |-> -1, length |-> 0]
        nz == SkipBytes(bitmap, byte_idx + 1, 0)
        s2 == ScanBits(bitmap[nz + 1], nz, 0, -1, 0)
    IN
    IF s1.ret THEN [exc |-> "", start |-> s1.start_idx, length |-> s1.length]
    ELSE IF s1.length # 0
    THEN ExtendRun(bitmap, max_block_range, byte_idx + 1, s1.start_idx,
                   s1.length)
    ELSE IF nz >= Len(bitmap)
    THEN [exc |-> "", start |-> -1, length |-> 0]
    ELSE IF s2.ret
    THEN [exc |-> "", start |-> s2.start_idx, length |-> s2.length]
    ELSE ExtendRun(bitmap, max_block_range, nz + 1, s2.start_idx, s2.length)

\* self.max_block_range = (1 << 18) // block_size
MaxBlockRange(block_size) == 262144 \div block_size

TAIL_SIZE == 28

\* b'MAGIC-BEGIN-TAIL'
MAGIC_BEGIN_TAIL ==
    <<77, 65, 71, 73, 67, 45, 66, 69, 71, 73, 78, 45, 84, 65, 73, 76>>

\* struct.pack('<Q', n % (1 << 64)) for a sum n below 2^31, the largest
\* that the files here give: the eight bytes compared with the stored ones.
PackQ(n) == [i \in 1..8 |-> IF i <= 4 THEN (n \div 256 ^ (i - 1)) % 256 ELSE 0]

\* b'PaRtImAgE-VoLuMe' + bytes(16)
PARTIMAGE ==
    <<80, 97, 82, 116, 73, 109, 65, 103, 69, 45, 86, 111, 76, 117, 77, 101>>
     \o [i \in 1..16 |-> 0]

\* s[:n]
Prefix(s, n) == SubSeq(s, 1, Min(n, Len(s)))

\* file.read(n) at position pos: the number of bytes read and their head.
ProbeRead(file, pos, n) ==
    [len  |-> Min(n, Max(0, file.size - pos)),
     head |-> SubSeq(file.head, pos + 1, Min(pos + n, Len(file.head)))]

Opened(tool) == [status |-> "ok", tool |-> tool, exc |-> "", magic |-> << >>,
                 len |-> 0]
Rejected(e) == [status |-> "raise", tool |-> "", exc |-> e, magic |-> << >>,
                len |-> 0]
WrongImageFile(buffer) ==
    [status |-> "raise", tool |-> "", exc |-> "WrongImageFile",
     magic |-> buffer.head, len |-> buffer.len]

\* VolumeHeader.__init__: the 512 bytes and their magic; "" or the error.
VolumeHeader(file, pos) ==
    LET buffer == ProbeRead(file, pos, VOLUME_HEADER_SIZE) IN
    IF buffer.len < VOLUME_HEADER_SIZE THEN Rejected("PartImageException")
    ELSE IF Prefix(buffer.head, 32) # PARTIMAGE \o [i \in 1..16 |-> 0]
    THEN WrongImageFile(buffer)
    ELSE Opened("")

----------------------------------------------------------------------------
(* PartImage.__init__: the volume header, the main header and the loop     *)
(* that looks for the magic strings in a rolling buffer.  A file is a      *)
(* sequence of segments from the end of its volume header on, each a       *)
(* string ("text") or a run of one byte ("fill"); self.buffer is the       *)
(* window of "len" bytes of the file from self.address on, and the file    *)
(* stands at its end.                                                      *)

\* str(b, 'utf-8') does not raise UnicodeDecodeError.
RECURSIVE Utf8Sequences(_)
Utf8Sequences(b) ==
    LET c == Head(b)
        cont(i, lo, hi) == Len(b) >= i /\ b[i] >= lo /\ b[i] <= hi
        rest(k) == Utf8Sequences(SubSeq(b, k, Len(b)))
    IN  IF b = << >> THEN TRUE
        ELSE IF c < 128 THEN rest(2)
        ELSE IF c >= 194 /\ c <= 223 THEN cont(2, 128, 191) /\ rest(3)
        ELSE IF c >= 224 /\ c <= 239
        THEN /\ cont(2, IF c = 224 THEN 160 ELSE 128,
                        IF c = 237 THEN 159 ELSE 191)
             /\ cont(3, 128, 191) /\ rest(4)
        ELSE IF c >= 240 /\ c <= 244
        THEN /\ cont(2, IF c = 240 THEN 144 ELSE 128,
                        IF c = 244 THEN 143 ELSE 191)
             /\ cont(3, 128, 191) /\ cont(4, 128, 191) /\ rest(5)
        ELSE FALSE

Utf8Valid(b) == (\A i \in 1 .. Len(b) : b[i] < 128) \/ Utf8Sequences(b)


\* b'MAGIC-BEGIN-'
MAGIC_BEGIN == <<77, 65, 71, 73, 67, 45, 66, 69, 71, 73, 78, 45>>
THRESHOLD == Len(MAGIC_BEGIN) + 16
PARTIMAGE_READ_SIZE == 1024

MAGIC_BEGIN_LOCALHEADER ==
    MAGIC_BEGIN \o <<76, 79, 67, 65, 76, 72, 69, 65, 68, 69, 82>>
MAGIC_BEGIN_BITMAP == MAGIC_BEGIN \o <<66, 73, 84, 77, 65, 80>>
MAGIC_BEGIN_INFO == MAGIC_BEGIN \o <<73, 78, 70, 79>>
MAGIC_BEGIN_DATABLOCKS ==
    MAGIC_BEGIN \o <<68, 65, 84, 65, 66, 76, 79, 67, 75, 83>>

\* The byte of the file at offset p.
ByteAt(file, p) ==
    LET i == CHOOSE j \in 1 .. Len(file.segs) :
                 file.starts[j] <= p /\ p < file.starts[j] + file.segs[j].len
        s == file.segs[i]
    IN  IF s.kind = "text" THEN s.bytes[p - file.starts[i] + 1] ELSE s.byte

\* The n bytes of the file from offset a on.
BytesAt(file, a, n) == [k \in 1..n |-> ByteAt(file, a + k - 1)]

\* sum(b if b <= 127 else b - 256 for b in ...)
RECURSIVE SignedSum(_)
SignedSum(b) ==
    IF b = << >> THEN 0
    ELSE (IF Head(b) <= 127 THEN Head(b) ELSE Head(b) - 256)
             + SignedSum(Tail(b))

\* The sum of the bytes of the file from offset a up to offset b, as they
\* are or as signed bytes, in the segments from the i-th on.
RECURSIVE SumRange(_, _, _, _, _)
SumRange(file, a, b, signed, i) ==
    IF i > Len(file.segs) THEN 0
    ELSE LET s   == file.segs[i]
             at  == file.starts[i]
             lo  == Max(a, at)
             hi  == Min(b, at + s.len)
             cut == SubSeq(s.bytes, lo - at + 1, hi - at)
         IN  (IF hi <= lo THEN 0
              ELSE IF s.kind = "fill"
              THEN (IF signed /\ s.byte > 127 THEN s.byte - 256 ELSE s.byte)
                       * (hi - lo)
              ELSE IF signed THEN SignedSum(cut) ELSE SumOf(cut))
             + SumRange(file, a, b, signed, i + 1)

\* self.file.read(n) with the file at offset pos: the number of bytes read.
ReadLen(file, pos, n) == Min(n, Max(0, file.size - pos))

\* The n bytes of the file at offset a: find(MAGIC_BEGIN), an index or -1.
Find(file, a, n) ==
    LET hits == {i \in 0 .. n - Len(MAGIC_BEGIN) :
                    \A k \in 1 .. Len(MAGIC_BEGIN) :
                        ByteAt(file, a + i + k - 1) = MAGIC_BEGIN[k]}
    IN  IF hits = {} THEN -1 ELSE CHOOSE i \in hits : \A j \in hits : i <= j

\* '0' <= ch <= '9' or 'A' <= ch <= 'Z'
Alnum(ch) == (ch >= 48 /\ ch <= 57) \/ (ch >= 65 /\ ch <= 90)

\* idx2 after the while loop that started with idx2 = from.
NameEnd(file, a, n, from) ==
    IF from >= n THEN from
    ELSE CHOOSE q \in from .. n :
             /\ q = n \/ ~Alnum(ByteAt(file, a + q))
             /\ \A j \in from .. q - 1 : Alnum(ByteAt(file, a + j))

\* struct.unpack('<l', b)[0]
UnpackSigned(b) ==
    b[1] + 256 * b[2] + 65536 * b[3]
        + 16777216 * (IF b[4] > 127 THEN b[4] - 256 ELSE b[4])

\* Header.__init__ for self.buffer[:HEADER_SIZE] of a buffer of n bytes at
\* offset a: "" or the exception.
HeaderCheck(file, a, n) ==
    IF n < HEADER_SIZE THEN "struct.error"
    ELSE IF SumRange(file, a, a + HEADER_SIZE - 4, TRUE, 1)
                # UnpackSigned(BytesAt(file, a + HEADER_SIZE - 4, 4))
    THEN "PartImageException"
    ELSE ""

\* The fields of LocalHeader.__init__ for the header at offset a.
LocalFields(file, a) ==
    LET label == BytesAt(file, a + 40, 64)
        zeros == {i \in 1..64 : label[i] = 0}
        idx   == IF zeros = {} THEN 64
                 ELSE (CHOOSE i \in zeros : \A j \in zeros : i <= j) - 1
    IN  [blockSize  |-> UnpackLE(BytesAt(file, a, 8)),
         usedBlocks |-> UnpackLE(BytesAt(file, a + 8, 8)),
         blockCount |-> UnpackLE(BytesAt(file, a + 16, 8)),
         bitmapSize |-> UnpackLE(BytesAt(file, a + 24, 8)),
         label      |-> SubSeq(label, 1, idx)]

\* dispose_buffer(size) for size <= len(self.buffer)
Dispose(file, r, size) ==
    [r EXCEPT !.address = @ + size,
              !.global_cksum = @ + SumRange(file, r.address, r.address + size,
                                            FALSE, 1),
              !.len = @ - size]

\* self.buffer += self.file.read(size - len(self.buffer)) for a buffer
\* shorter than size
ReadUpTo(file, r, size) ==
    IF r.len < size
    THEN [r EXCEPT !.len = @ + ReadLen(file, r.address + r.len, size - r.len)]
    ELSE r

\* The members of a PartImage when __init__ calls VolumeHeader.
Unread ==
    [pc |-> "scan", address |-> VOLUME_HEADER_SIZE, len |-> 0,
     global_cksum |-> 0, names |-> << >>, local |-> << >>,
     bitmap |-> << >>, info |-> << >>, dataBlocksOffset |-> -1, exc |-> ""]

\* The state of __init__ when it enters its loop: the main header was read
\* into the buffer and dispose_buffer(HEADER_SIZE) has removed it.
ScanStart(file) ==
    Dispose(file, [Unread EXCEPT !.len = HEADER_SIZE], HEADER_SIZE)

\* The branches of __init__ on segment_name.
Dispatch(file, r, segment_name) ==
    LET bm_size == r.local[1].bitmapSize
        b       == ReadUpTo(file, r, bm_size)
        h       == ReadUpTo(file, r, HEADER_SIZE)
        e       == HeaderCheck(file, r.address, h.len)
        fields  == LocalFields(file, r.address)
    IN
    IF segment_name = MAGIC_BEGIN_BITMAP
    THEN IF r.local = << >> THEN Failed(r, "AttributeError")
         ELSE IF b.len < bm_size THEN Failed(b, "PartImageException")
         ELSE [Dispose(file, b, bm_size) EXCEPT
                 !.bitmap = <<[at |-> r.address, size |-> bm_size]>>]
    ELSE IF segment_name = MAGIC_BEGIN_LOCALHEADER
    THEN IF e # "" THEN Failed(h, e)
         ELSE IF ~Utf8Valid(fields.label)
         THEN Failed(h, "UnicodeDecodeError")
         ELSE IF fields.blockSize = 0
         THEN Failed([h EXCEPT !.local = <<fields>>], "ZeroDivisionError")
         ELSE [Dispose(file, h, HEADER_SIZE) EXCEPT !.local = <<fields>>]
    ELSE IF segment_name = MAGIC_BEGIN_INFO
    THEN IF e # "" THEN Failed(h, e)
         ELSE [Dispose(file, h, HEADER_SIZE) EXCEPT !.info = <<r.address>>]
    ELSE IF segment_name = MAGIC_BEGIN_DATABLOCKS
    THEN [r EXCEPT !.pc = "done", !.dataBlocksOffset = r.address]
    ELSE r

\* The number of bytes that are removed of a buffer of len bytes with
\* MAGIC_BEGIN at idx, less than THRESHOLD bytes before its end:
\* self.dispose_buffer(len(self.buffer) - idx)
NearEndDrops(len, idx) == len - idx

\* One turn of the loop of __init__ with MAGIC_BEGIN in the buffer at idx.
ScanMagic(file, r, idx) ==
    LET near == idx > r.len - THRESHOLD
        d    == Dispose(file, r, NearEndDrops(r.len, idx))
        r1   == IF near
                THEN [d EXCEPT !.len = @ + ReadLen(file, d.address + d.len,
                                                   PARTIMAGE_READ_SIZE)]
                ELSE r
        idx1 == IF near THEN 0 ELSE idx
        from == idx1 + Len(MAGIC_BEGIN)
        end  == NameEnd(file, r1.address, r1.len, from)
        idx3 == Find(file, r1.address + from, Max(0, Min(end, r1.len) - from))
        idx2 == IF idx3 # -1 THEN idx3 + from ELSE end
        segment_name == BytesAt(file, r1.address + idx1,
                                Max(0, Min(idx2, r1.len) - idx1))
    IN  IF ~Utf8Valid(segment_name) THEN Failed(r1, "UnicodeDecodeError")
        ELSE IF idx2 > r1.len THEN Failed(r1, "PartImageException")
        ELSE Dispatch(file,
                      [Dispose(file, r1, idx2) EXCEPT
                         !.names = Append(@, [name |-> segment_name,
                                              at |-> r1.address + idx1])],
                      segment_name)

\* One turn of the loop of __init__ without MAGIC_BEGIN in the buffer.
ScanRefill(file, r) ==
    LET d == Dispose(file, r, r.len)
        n == ReadLen(file, d.address, PARTIMAGE_READ_SIZE)
    IN  IF n = 0 THEN Failed(d, "PartImageException")
        ELSE [d EXCEPT !.len = n]

\* The loop of __init__, to its return or its exception.
RECURSIVE ScanLoop(_, _)
ScanLoop(file, r) ==
    LET idx == Find(file, r.address, r.len) IN
    IF r.pc # "scan" THEN r
    ELSE IF idx # -1 THEN ScanLoop(file, ScanMagic(file, r, idx))
    ELSE ScanLoop(file, ScanRefill(file, r))

\* PartImage.__init__: the volume header, the main header, whose strings
\* and date are valid in the files here, and the loop.
PartImageInit(file) ==
    LET volume_header == VolumeHeader(file, 0)
        n    == ReadLen(file, VOLUME_HEADER_SIZE, HEADER_SIZE)
        main == HeaderCheck(file, VOLUME_HEADER_SIZE, n)
    IN  IF volume_header.status # "ok"
        THEN Failed(Unread, volume_header.exc)
        ELSE IF file.volume # 0 THEN Failed(Unread, "PartImageException")
        ELSE IF n < HEADER_SIZE
        THEN Failed([Unread EXCEPT !.len = n], "PartImageException")
        ELSE IF main # ""
        THEN Failed([Unread EXCEPT !.len = n], main)
        ELSE ScanLoop(file, ScanStart(file))

----------------------------------------------------------------------------
(* PartImage.blockReader.  The data of a file is a sequence of items: the  *)
(* blocks and the check records, each with its size and the sum of its     *)
(* bytes, and the tail.                                                    *)

\* The items of the file that is open: of the file the descriptor was
\* opened with, or of the volume after it.
Items(img, r) == IF r.vol = 0 THEN img.file.items ELSE img.file.next.items

\* The bytes of a file from the item at "pos" on.
RECURSIVE BytesFrom(_, _)
BytesFrom(items, pos) ==
    IF pos > Len(items) THEN 0
    ELSE items[pos].size + BytesFrom(items, pos + 1)

\* str(n)
RECURSIVE Decimal(_)
Decimal(n) ==
    LET digit == <<"0", "1", "2", "3", "4", "5", "6", "7", "8", "9">> IN
    IF n < 10 THEN <<digit[n + 1]>>
    ELSE Append(Decimal(n \div 10), digit[(n % 10) + 1])

\* f'{n:03}'
Format03(n) == [i \in 1 .. 3 - Len(Decimal(n)) |-> "0"] \o Decimal(n)

\* s.endswith(t)
EndsWith(s, t) ==
    Len(s) >= Len(t) /\ SubSeq(s, Len(s) - Len(t) + 1, Len(s)) = t

\* os.path.exists(name), in the directory of the image: beside the file
\* that is open there is the file "next", or there is none.
VolumeExists(img, name) == img.file.next.exists /\ img.file.next.name = name

\* openNextVolume: the exception it raises, or "" and the reader with the
\* next volume as its file.
OpenNextVolume(img, r) ==
    LET filename == r.filename
        volumeNo == r.volume_header.volume
        next     == SubSeq(filename, 1, Len(filename) - 3)
                        \o Format03(volumeNo + 1)
        f        == img.file.next
        volume   == VolumeHeader(f, 0)
    IN  IF EndsWith(filename, <<".">> \o Format03(volumeNo))
           /\ VolumeExists(img, next)
        THEN IF volume.status # "ok" THEN [exc |-> volume.exc, r |-> r]
             ELSE IF f.volume = volumeNo + 1
                     /\ r.volume_header.identifier = f.identifier
             THEN [exc |-> "",
                   r |-> [r EXCEPT !.volume_header =
                                       [volume |-> f.volume,
                                        identifier |-> f.identifier],
                                   !.filename = next, !.vol = @ + 1]]
             ELSE [exc |-> "PartImageException", r |-> r]
        ELSE [exc |-> "PartImageException", r |-> r]

\* The buffer is filled up to "size" bytes.  With fewer bytes left in the
\* file openNextVolume is called and the rest is read from the file it
\* opened.
FillBuffer(img, r, size) ==
    LET items == Items(img, r)
        got   == BytesFrom(items, r.pos)
        o     == OpenNextVolume(img, r)
        rest  == Items(img, o.r)
    IN  IF got >= size THEN [exc |-> "", item |-> items[r.pos], r |-> r]
        ELSE IF o.exc # "" THEN [exc |-> o.exc, r |-> r]
        ELSE IF got + BytesFrom(rest, 1) < size
        THEN [exc |-> "PartImageException", r |-> o.r]
        ELSE [exc  |-> "",
              item |-> IF got = 0 THEN rest[1]
                       ELSE [rest[1] EXCEPT !.size = @ + got,
                                            !.sum = @ + items[r.pos].sum],
              r    |-> [o.r EXCEPT !.pos = 1]]

\* crc_check = check_count >= self.CHECK_FREQUENCY
CrcCheckDue(check_count) == check_count >= PARTIMAGE_CHECK_FREQUENCY

\* The locals of PartImage.blockReader before its loop; "fn" says whether
\* the caller has passed a function fn.  "block_nos" keeps the numbers of
\* the blocks read.
PartImageReaderStart(img, fn) ==
    [pc |-> "range", fn |-> fn, block_nos |-> << >>, block_start |-> 0, block_length |-> 0, block_no |-> 0,
     no_blocks |-> 0, check_count |-> 0, crc |-> << >>, pos |-> 1,
     global_cksum |-> img.global_cksum, max_block_range |-> MaxBlockRange(img.blockSize),
     calls |-> << >>, read |-> << >>, checks |-> << >>, ranges |-> << >>,
     compared |-> << >>, vol |-> 0, filename |-> img.file.name,
     volume_header |-> [volume |-> img.volume,
                        identifier |-> img.file.identifier],
     exc |-> ""]

\* The condition of the while loop: the next range of used blocks.
PartImageNextRange(img, r) ==
    LET u == UsedBlocksRange(img.bitmap, r.max_block_range,
                             r.block_start + r.block_length)
    IN  IF u.exc # "" THEN Failed(r, u.exc)
        ELSE IF u.length = 0
        THEN [r EXCEPT !.pc = "tail",
                       !.ranges = Append(@, [idx |-> r.block_start + r.block_length,
                                             start |-> u.start,
                                             length |-> u.length])]
        ELSE [r EXCEPT !.pc = "blocks", !.block_start = u.start,
                       !.block_length = u.length, !.block_no = u.start,
                       !.ranges = Append(@, [idx |-> r.block_start + r.block_length,
                                             start |-> u.start,
                                             length |-> u.length])]

\* After the block and its check record: the next turn of the for loop, or
\* of the while loop when the range is done.
NextBlock(r) ==
    IF r.block_no + 1 < r.block_start + r.block_length
    THEN [r EXCEPT !.block_no = @ + 1]
    ELSE [r EXCEPT !.pc = "range"]

\* if fn is not None: fn(block_no, self.buffer[:block_size])
CalledIf(fn, r, block_no, block) ==
    IF fn THEN Called(r, block_no, block_no, block) ELSE r

\* One turn of the for loop of PartImage.blockReader: block block_no and the
\* check record after it.
PartImageReadBlock(img, r) ==
    LET block_size  == img.blockSize
        check_count == r.check_count + block_size
        crc_check   == CrcCheckDue(check_count)
        b   == FillBuffer(img, r, block_size)
        crc == Append(r.crc, b.item.id)
        r1  == [CalledIf(r.fn, b.r, r.block_no, b.item) EXCEPT
                  !.no_blocks = @ + 1, !.check_count = check_count,
                  !.crc = crc, !.read = Append(@, b.item.id),
                  !.block_nos = Append(@, r.block_no),
                  !.pos = @ + 1, !.global_cksum = @ + b.item.sum]
        c   == FillBuffer(img, r1, PARTIMAGE_CHECK_SIZE)
        rc  == [c.r EXCEPT !.checks = Append(@, [after |-> r1.no_blocks,
                                                record |-> IF c.exc = ""
                                                           THEN c.item
                                                           ELSE [kind |-> "none"],
                                                block_start |-> r.block_start,
                                                crc |-> crc])]
        r2  == [rc EXCEPT !.pos = @ + 1, !.global_cksum = @ + c.item.sum]
    IN
    IF r.block_no = img.blockCount THEN [r EXCEPT !.pc = "range"]
    ELSE IF b.exc # ""
    THEN Failed([b.r EXCEPT !.no_blocks = @ + 1,
                            !.check_count = check_count], b.exc)
    ELSE IF b.item.kind # "block" \/ b.item.size # block_size
    THEN Failed(r, "misaligned")
    ELSE IF ~crc_check THEN NextBlock(r1)
    ELSE IF c.exc # "" THEN Failed(rc, c.exc)
    ELSE IF c.item.kind # "check" THEN Failed(r1, "misaligned")
    ELSE IF c.item.magic # "CHK" THEN Failed(rc, "PartImageException")
    ELSE IF c.item.pos # r.block_start \/ c.item.crc # crc
    THEN Failed(r2, "PartImageException")
    ELSE NextBlock([r2 EXCEPT !.check_count = 0, !.crc = << >>])

\* PartImage.blockReader after its loops: the number of blocks and the tail.
\* dispose_buffer(16) adds the magic of the tail to the sum, which then is
\* compared ("compared") with the stored one.
PartImageReadTail(img, r) ==
    LET t  == IF r.pos <= Len(Items(img, r)) THEN Items(img, r)[r.pos]
              ELSE [kind |-> "none"]
        r1 == [r EXCEPT !.global_cksum = @ + SumOf(MAGIC_BEGIN_TAIL),
                        !.compared = <<r.global_cksum
                                         + SumOf(MAGIC_BEGIN_TAIL)>>]
    IN
    IF r.no_blocks # img.usedBlocks THEN Failed(r, "PartImageException")
    ELSE IF t.kind # "tail" THEN Failed(r, "PartImageException")
    ELSE IF t.volume # r.volume_header.volume
    THEN Failed(r1, "PartImageException")
    ELSE IF t.crc # PackQ(r1.global_cksum)
    THEN Failed(r1, "PartImageException")
    ELSE [r1 EXCEPT !.pc = "done", !.pos = @ + 1]

\* ImageBackup.BLOCK_OFFSET_SIZE
BLOCK_OFFSET_SIZE == 1024

\* The offset of part_size in the main header, after its nine strings, two
\* numbers and the date.
PART_SIZE_OFFSET == 512 + 4096 + 512 + 4095 + 5 * 65 + 8 + 44

\* The PartImage that __init__ has built of a file when it returns in state
\* s: what its methods read of the headers, the bitmap and its members.
PartImageObject(file, s) ==
    [tool |-> "partimage",
     blockSize |-> s.local[1].blockSize,
     usedBlocks |-> s.local[1].usedBlocks,
     blockCount |-> s.local[1].blockCount,
     bitmapSize |-> s.local[1].bitmapSize,
     partitionSize |-> UnpackLE(BytesAt(file, VOLUME_HEADER_SIZE
                                                + PART_SIZE_OFFSET, 8)),
     bitmap |-> IF s.bitmap = << >> THEN << >>
                ELSE BytesAt(file, s.bitmap[1].at, s.bitmap[1].size),
     checksum_size |-> PARTIMAGE_CHECK_SIZE,
     checksum_blocks |-> PARTIMAGE_CHECK_FREQUENCY \div s.local[1].blockSize,
     dataBlocksOffset |-> s.dataBlocksOffset,
     block_offset_size |-> BLOCK_OFFSET_SIZE,
     volume |-> file.volume,
     global_cksum |-> s.global_cksum,
     file |-> file]

\* blockReader from the state r of its loops to its return or its exception.
RECURSIVE BlockReaderLoop(_, _)
BlockReaderLoop(img, r) ==
    IF r.pc = "done" THEN r
    ELSE IF r.pc = "range" THEN BlockReaderLoop(img, PartImageNextRange(img, r))
    ELSE IF r.pc = "blocks" THEN BlockReaderLoop(img, PartImageReadBlock(img, r))
    ELSE BlockReaderLoop(img, PartImageReadTail(img, r))

\* No block was read: the run has ended with exception e before blockReader
\* was called.
NotRead(e) ==
    [pc |-> "done", exc |-> e, calls |-> << >>, read |-> << >>,
     block_nos |-> << >>,
     checks |-> << >>, ranges |-> << >>, compared |-> << >>, vol |-> 0,
     no_blocks |-> 0]

----------------------------------------------------------------------------
(* Images for the sequential readers.                                      *)

\* isRegularFile(file) is false for the file: it is read through a pipe.
Piped(file) == [file EXCEPT !.regular = FALSE]

\* A file whose data byte number "flip" (from 1, 0 for none) has its lowest
\* bit changed and that ends in "extra" bytes more.
Damaged(src, flip, extra) ==
    [src EXCEPT
       !.data = [i \in 1 .. Len(@) + extra |->
                   IF i > Len(@) THEN 7
                   ELSE IF i = flip THEN ByteXor(@[i], 1) ELSE @[i]],
       !.gen  = [cut |-> @.cut, flip |-> flip, extra |-> extra]]

\* The image of 200 used blocks of one byte with a checksum after every 64,
\* each over the blocks since the checksum before: three groups of 64 blocks
\* and one of 8.
ManyBlocksImage ==
    LET bitmap == [i \in 1..25 |-> 255]
        c      == [mode |-> 32, size |-> 4, blocks |-> 64]
        group(g) == [j \in 1 .. (IF g < 4 THEN 64 ELSE 8) |->
                        BlockBytes(64 * (g - 1) + j - 1, 1)[1]]
        data   == Concat([g \in 1..4 |->
                     group(g) \o PackL("<", crc32(group(g), CRC32_SEED))])
    IN  PartCloneOpen([header |-> PartCloneHeader(bitmap, 200, 200, 1, c, 1,
                                                  "<"),
                       bitmap |-> bitmap,
                       block_offset_size |-> 8,
                       data |-> data,
                       gen |-> [cut |-> 0, flip |-> 0, extra |-> 0]]).image

\* What is done to a file: nothing, with all or not all bits of the last
\* bitmap byte in use, its last byte cut off, a bit of its third data byte
\* changed, or a byte added.
Damages ==
    {[less |-> 0, cut |-> 0, flip |-> 0, extra |-> 0],
     [less |-> 3, cut |-> 0, flip |-> 0, extra |-> 0],
     [less |-> 3, cut |-> 1, flip |-> 0, extra |-> 0],
     [less |-> 0, cut |-> 0, flip |-> 3, extra |-> 0],
     [less |-> 3, cut |-> 0, flip |-> 0, extra |-> 1]}

PartCloneReaderImages ==
    {ManyBlocksImage} \cup
    {PartCloneOpen(Damaged(
         PartCloneSource(bm, 8 * Len(bm) - d.less,
                         (8 * Len(bm) - d.less) * SmallBlockSize,
                         SmallBlockSize, c, reseed, endian, 8, d.cut),
         d.flip, d.extra)).image :
        bm \in Bitmaps, c \in ChecksumFields, reseed \in {0, 1},
        endian \in {"<", ">"}, d \in Damages}

NtfsReaderImages ==
    {NtfsImage(cmds, cs, n, inuse, cut) :
        cmds \in SeqsUpTo(NtfsCmds, MaxCmds), cs \in {1, 2},
        n \in 0..MaxClusters, inuse \in {1, 2}, cut \in {0, 1}}

\* PartImage files.  struct.pack('<l', v)
PackSigned(v) ==
    LET u == IF v < 0 THEN v + 2147483647 + 1 ELSE v IN
    <<u % 256, (u \div 256) % 256, (u \div 65536) % 256,
      (u \div 16777216) + (IF v < 0 THEN 128 ELSE 0)>>

Magic(name) ==
    [kind |-> "text", len |-> Len(name), bytes |-> name, byte |-> 0]

ByteRun(byte, n) == [kind |-> "fill", len |-> n, bytes |-> << >>, byte |-> byte]

\* A header of HEADER_SIZE bytes: the fields, zero bytes and the sum of the
\* bytes as signed ones.
HeaderSegs(fields) ==
    <<Magic(fields), ByteRun(0, HEADER_SIZE - 4 - Len(fields)),
      Magic(PackSigned(SignedSum(fields)))>>

\* The main header of the files: the file system 'xfs', no other string,
\* the date 2000-01-01 and a partition size of 0.
MainHeaderSegs ==
    LET fs   == <<120, 102, 115>>
        date == [i \in 1..44 |-> IF i = 13 THEN 1 ELSE IF i = 21 THEN 100
                                 ELSE 0]
    IN  <<Magic(fs), ByteRun(0, PART_SIZE_OFFSET - 44 - Len(fs)), Magic(date),
          ByteRun(0, HEADER_SIZE - 4 - PART_SIZE_OFFSET),
          Magic(PackSigned(SignedSum(fs) + SignedSum(date)))>>

RECURSIVE LenSum(_, _)
LenSum(segs, n) == IF n = 0 THEN 0 ELSE segs[n].len + LenSum(segs, n - 1)

\* The bytes of a file between its volume header and its data: the main
\* header and the four magic strings, each with what it announces and
\* pad[i] zero bytes in front of the i-th; "bitmap" is the segment of the
\* bitmap.
HeaderPart(block_size, used, count, bitmap, pad) ==
    MainHeaderSegs
    \o <<ByteRun(0, pad[1]), Magic(MAGIC_BEGIN_LOCALHEADER)>>
    \o HeaderSegs(PackQ(block_size) \o PackQ(used) \o PackQ(count)
                      \o PackQ(bitmap.len) \o PackQ(0))
    \o <<ByteRun(0, pad[2]), Magic(MAGIC_BEGIN_BITMAP), bitmap,
         ByteRun(0, pad[3]), Magic(MAGIC_BEGIN_INFO)>>
    \o HeaderSegs(<< >>)
    \o <<ByteRun(0, pad[4]), Magic(MAGIC_BEGIN_DATABLOCKS)>>

\* The first bytes of a volume header: the magic, the version '0.6.1', the
\* number of the volume and the identifier.
VolumeHeaderBytes(volume, identifier) ==
    PARTIMAGE \o <<48, 46, 54, 46, 49>> \o [i \in 1..59 |-> 0]
        \o <<volume, 0, 0, 0>> \o PackQ(identifier)

\* No file beside the image.
NoVolume ==
    [exists |-> FALSE, name |-> << >>, head |-> << >>, size |-> 0,
     volume |-> 0, identifier |-> 0, items |-> << >>]

\* The file 'x' of volume 0 and identifier 1, alone in its directory: the
\* volume header, the bytes "headers" and the bytes "data", which are the
\* items "items".  It is a regular file; Piped is the same read through a
\* pipe.
PartImageFile(headers, data, items, gen) ==
    LET segs == headers \o data IN
    [head  |-> VolumeHeaderBytes(0, 1),
     size  |-> VOLUME_HEADER_SIZE + LenSum(segs, Len(segs)),
     volume |-> 0, identifier |-> 1, name |-> <<"x">>,
     segs  |-> segs,
     starts |-> [i \in 1 .. Len(segs) |->
                    VOLUME_HEADER_SIZE + LenSum(segs, i - 1)],
     base  |-> VOLUME_HEADER_SIZE + LenSum(headers, Len(headers)),
     items |-> items, next |-> NoVolume, gen |-> gen, regular |-> TRUE]

\* The file of an image with a bitmap of bmsize bytes bmbyte, blocks of
\* 16384 bytes and 3000 zero bytes of data.
HeadersFile(bmsize, bmbyte, pad) ==
    LET used == IF bmbyte = 255 THEN 8 * bmsize
                ELSE IF bmbyte = 85 THEN 4 * bmsize ELSE 0
    IN  PartImageFile(HeaderPart(16384, used, 8 * bmsize,
                                 ByteRun(bmbyte, bmsize), pad),
                      <<ByteRun(0, 3000)>>, << >>,
                      [bmsize |-> bmsize, bmbyte |-> bmbyte, pad |-> pad,
                       size |-> "whole"])

\* Bitmaps that leave nothing, a part of MAGIC-BEGIN-INFO, all of it with
\* less than THRESHOLD bytes, or more in the buffer of READ_SIZE bytes, and
\* zero bytes in front of the magic strings that move them to the end of a
\* buffer.
HeadersBitmapSizes ==
    {1, 500, 977, 978, 979, 985, 989, 990, 994, 995, 1000, 1005, 1006, 1007,
     2000}

HeadersPads ==
    {<<0, 0, 0, 0>>, <<0, 0, 3, 0>>, <<0, 0, 0, 11>>, <<1000, 0, 0, 0>>,
     <<1015, 0, 0, 0>>, <<0, 990, 0, 0>>}

\* The first "size" bytes of a file.
Truncated(file, size) ==
    [file EXCEPT !.size = size, !.head = Prefix(@, size),
                 !.gen.size = "cut"]

\* The files, whole, and two of them cut in the volume header and in the
\* main header.
HeadersFiles ==
    {HeadersFile(bmsize, bmbyte, pad) :
        bmsize \in HeadersBitmapSizes, bmbyte \in {255, 85, 0},
        pad \in HeadersPads}
    \cup {Truncated(HeadersFile(bmsize, 255, <<0, 0, 0, 0>>), size) :
             bmsize \in {1, 990}, size \in {100, 600}}

\* Block sizes with a check record after every fourth, every second (98304
\* bytes) and every block.
PartImageBlockSizes == {16384, 49152, 65536}

PartImageBitmapBytes == {0, 22, 126, 255}

PartImageBitmaps ==
    UNION {[1..n -> PartImageBitmapBytes] : n \in 1..MaxBitmapBytes}

\* The start of the run of at most "cap" used blocks that holds block k,
\* when each maximal run of used blocks is cut into such runs from its start.
RunStart(bitmap, k, cap) ==
    LET s == CHOOSE j \in 0..k :
                 /\ \A i \in j..k : BitSet(bitmap, i)
                 /\ j > 0 => ~BitSet(bitmap, j - 1)
    IN  s + ((k - s) \div cap) * cap

\* The bytes of a check record: the magic, the CRC and the index, '<LQ'.
CheckBytes(item) ==
    (IF item.magic = "CHK" THEN <<67, 72, 75, 0>> ELSE <<67, 72, 88, 0>>)
        \o <<Len(item.crc), 0, 0, 0>> \o PackQ(item.pos)

\* The sum of the first item.size bytes of a block or a check record.
ItemSum(item) ==
    IF item.kind = "block" THEN item.size * ((item.id % 200) + 1)
    ELSE SumOf(Prefix(CheckBytes(item), item.size))

\* The items a PartImage writer produces for the blocks from the i-th on:
\* each block, its bytes all (id mod 200) + 1, and a check record after
\* every block that brings the payload since the last record to
\* CHECK_FREQUENCY bytes.  The CRC of a record is kept as the blocks it
\* covers and stands in the bytes as their number.  Record number bad.at is
\* written with a wrong magic, index or CRC.
RECURSIVE PartImageItems(_, _, _, _, _, _, _)
PartImageItems(bitmap, block_size, blocks, i, since, nchecks, bad) ==
    IF i > Len(blocks) THEN << >>
    ELSE LET ids   == Append(since, blocks[i])
             due   == Len(ids) * block_size >= PARTIMAGE_CHECK_FREQUENCY
             wrong == IF nchecks + 1 = bad.at THEN bad.what ELSE "none"
             start == RunStart(bitmap, blocks[i], MaxBlockRange(block_size))
             rec   == [kind  |-> "check", size |-> PARTIMAGE_CHECK_SIZE,
                       magic |-> IF wrong = "magic" THEN "CHX" ELSE "CHK",
                       pos   |-> IF wrong = "pos" THEN start + 1 ELSE start,
                       crc   |-> IF wrong = "crc" THEN Tail(ids) ELSE ids]
             check == [kind  |-> "check", size |-> rec.size,
                       sum   |-> ItemSum(rec),
                       magic |-> rec.magic, pos |-> rec.pos, crc |-> rec.crc]
         IN  <<[kind |-> "block", size |-> block_size, id |-> blocks[i],
                sum  |-> ItemSum([kind |-> "block", size |-> block_size,
                                  id |-> blocks[i]])]>>
             \o (IF due THEN <<check>> ELSE << >>)
             \o PartImageItems(bitmap, block_size, blocks, i + 1,
                               IF due THEN << >> ELSE ids,
                               IF due THEN nchecks + 1 ELSE nchecks, bad)

\* The sum of the bytes of the volume header of the files.
VolumeHeaderSum == SumOf(VolumeHeaderBytes(0, 1))

RECURSIVE ItemsSum(_, _)
ItemsSum(items, n) == IF n = 0 THEN 0 ELSE items[n].sum + ItemsSum(items, n - 1)

\* The sum of the bytes "segs".
RECURSIVE SegsSum(_, _)
SegsSum(segs, n) ==
    IF n = 0 THEN 0
    ELSE (IF segs[n].kind = "fill" THEN segs[n].byte * segs[n].len
          ELSE SumOf(segs[n].bytes)) + SegsSum(segs, n - 1)

\* The data and the tail of a file whose bytes from the end of the volume
\* header to the data sum to hsum.  The writer's sum covers the bytes from
\* the end of the volume header to the end of the tail's magic.  The tail
\* "sum" stores the sum without the tail's magic, "high" the sum plus 2^32,
\* "whole" the sum of the bytes from the first byte of the volume header on,
\* "volume" another volume number.  With "cut" the tail is missing and the
\* file ends in the middle of the last item.
PartImageData(items, hsum, tail, cut) ==
    LET n   == Len(items)
        sum == hsum + ItemsSum(items, n) + SumOf(MAGIC_BEGIN_TAIL)
        t == [kind |-> "tail", size |-> TAIL_SIZE,
              volume |-> IF tail = "volume" THEN 1 ELSE 0,
              crc |-> IF tail = "sum" THEN PackQ(sum - SumOf(MAGIC_BEGIN_TAIL))
                      ELSE IF tail = "high" THEN [PackQ(sum) EXCEPT ![5] = 1]
                      ELSE IF tail = "whole" THEN PackQ(VolumeHeaderSum + sum)
                      ELSE PackQ(sum)]
    IN  IF cut = 0
        THEN items \o (IF tail = "none" THEN << >> ELSE <<t>>)
        ELSE [i \in 1..n |-> IF i = n
                             THEN [items[i] EXCEPT
                                     !.size = @ \div 2,
                                     !.sum = ItemSum([items[i] EXCEPT
                                                        !.size = @ \div 2])]
                             ELSE items[i]]

\* The bytes of an item.
ItemSeg(item) ==
    IF item.kind = "block" THEN ByteRun((item.id % 200) + 1, item.size)
    ELSE IF item.kind = "check"
    THEN Magic(Prefix(CheckBytes(item), item.size))
    ELSE Magic(MAGIC_BEGIN_TAIL \o item.crc \o <<item.volume, 0, 0, 0>>)

\* The file of an image with bitmap bm, of whose bits the last "less" are
\* beyond the block count.
PartImageReaderFile(bm, less, block_size, bad, tail, cut) ==
    LET tb      == 8 * Len(bm) - less
        blocks  == UsedBlockList(bm, 0, tb)
        headers == HeaderPart(block_size, Len(blocks), tb, Magic(bm),
                              <<0, 0, 0, 0>>)
        items   == PartImageData(PartImageItems(bm, block_size, blocks, 1,
                                                << >>, 0, bad),
                                 SegsSum(headers, Len(headers)), tail, cut)
    IN  PartImageFile(headers, [i \in 1 .. Len(items) |-> ItemSeg(items[i])],
                      items,
                      [bitmap |-> bm, blockCount |-> tb,
                       usedBlocks |-> Len(blocks), blockSize |-> block_size,
                       cut |-> cut, bad |-> bad, tail |-> tail])

\* The check records of the files: all right, or one of them wrong.
BadRecords ==
    {[at |-> 0, what |-> "none"], [at |-> 1, what |-> "magic"],
     [at |-> 1, what |-> "pos"], [at |-> 1, what |-> "crc"],
     [at |-> 2, what |-> "crc"]}

\* The ends of the files: the tail, right or wrong, no tail, and the file cut.
FileEnds ==
    {[tail |-> "ok", cut |-> 0], [tail |-> "volume", cut |-> 0],
     [tail |-> "sum", cut |-> 0], [tail |-> "high", cut |-> 0],
     [tail |-> "whole", cut |-> 0], [tail |-> "none", cut |-> 0],
     [tail |-> "none", cut |-> 1]}

PartImageReaderFiles ==
    {PartImageReaderFile(bm, less, block_size, bad, e.tail, e.cut) :
        bm \in PartImageBitmaps, less \in {0, 3},
        block_size \in PartImageBlockSizes, bad \in BadRecords,
        e \in FileEnds}

\* Images of several volumes.  The names of the first: 'x.000', 'x.001',
\* 'x000' and 'x.0'.
VolumeNames ==
    {<<"x", ".", "0", "0", "0">>, <<"x", ".", "0", "0", "1">>,
     <<"x", "0", "0", "0">>, <<"x", ".", "0">>}

\* The file 'x.001' beside the image, if it exists: shorter or longer than a
\* volume header, with or without the magic, naming its volume and its
\* identifier.  Beside an image that is itself named 'x.001' there is none.
NextVolumes ==
    {[exists |-> e, name |-> <<"x", ".", "0", "0", "1">>,
      head |-> Prefix(h, sz), size |-> sz, volume |-> v, identifier |-> id,
      items |-> << >>] :
        e \in BOOLEAN, h \in {PARTIMAGE, [i \in 1..32 |-> 0]},
        sz \in {100, 60000}, v \in {1, 2}, id \in {1, 2}}

\* The image whose first file ends in the middle of its last item, a block
\* or a check record; the rest of the item and the tail are in the next.
PartImageVolumeFile(bm, block_size, name, next) ==
    LET none  == [at |-> 0, what |-> "none"]
        file  == PartImageReaderFile(bm, 0, block_size, none, "none", 1)
        whole == PartImageReaderFile(bm, 0, block_size, none, "ok", 0)
        n     == Len(file.items)
        part  == file.items[n]
        rest  == [whole.items[n] EXCEPT !.size = @ - part.size,
                                        !.sum = @ - part.sum]
        tail  == [whole.items[n + 1] EXCEPT !.volume = next.volume]
    IN  [file EXCEPT !.name = name,
                     !.next = [next EXCEPT !.items = <<rest, tail>>]]

PartImageVolumeFiles ==
    {PartImageVolumeFile(bm, block_size, c.name, c.next) :
        bm \in {<<22>>, <<255>>}, block_size \in {16384, 65536},
        c \in {d \in [name : VolumeNames, next : NextVolumes] :
                 d.next.exists => d.name # d.next.name}}

----------------------------------------------------------------------------
(* The specifications of sequential reading: a blockReader run on a        *)
(* descriptor just opened, one turn of its loop at a time; for PartImage,  *)
(* a file, and after the format probe the whole run of vpartimage -c.      *)

InitPartCloneReader ==
    /\ image \in PartCloneReaderImages
    /\ index = << >>
    /\ call = NoCall
    /\ rd = NoReader

InitNtfsReader ==
    /\ image \in NtfsReaderImages
    /\ index = << >>
    /\ call = NoCall
    /\ rd = NoReader

InitPartImageReader ==
    /\ \E file \in PartImageReaderFiles \cup PartImageVolumeFiles :
         image \in {file, Piped(file)}
    /\ index = << >>
    /\ call = NoCall
    /\ rd = NoReader

\* blockReader(verify_crc = ..., fn = ...) is called.
PartCloneStart ==
    /\ rd.pc = "idle"
    /\ \E verify_crc \in BOOLEAN : rd' = PartCloneReaderStart(image, verify_crc)
    /\ UNCHANGED <<image, index, call>>

PartCloneBit ==
    /\ rd.pc = "blocks"
    /\ rd.block_no < 8 * Len(image.bitmap)
    /\ rd' = PartCloneReadBit(image, rd)
    /\ UNCHANGED <<image, index, call>>

PartCloneEnd ==
    /\ rd.pc = "blocks"
    /\ rd.block_no >= 8 * Len(image.bitmap)
    /\ rd' = PartCloneReadEnd(image, rd)
    /\ UNCHANGED <<image, index, call>>

NextPartCloneReader == PartCloneStart \/ PartCloneBit \/ PartCloneEnd

SpecPartCloneReader == InitPartCloneReader /\ [][NextPartCloneReader]_vars

NtfsStart ==
    /\ rd.pc = "idle"
    /\ rd' = NtfsReaderStart(image)
    /\ UNCHANGED <<image, index, call>>

NtfsCmd ==
    /\ rd.pc = "blocks"
    /\ rd' = NtfsReadCmd(image, rd)
    /\ UNCHANGED <<image, index, call>>

NextNtfsReader == NtfsStart \/ NtfsCmd

SpecNtfsReader == InitNtfsReader /\ [][NextNtfsReader]_vars

----------------------------------------------------------------------------
(* What the writer of an image stored, for the properties below.           *)

BitmapFormat(img) == img.tool \in {"partclone", "partimage"}

\* The number of set bits of the bitmap below block k.
UsedBelow(bitmap, k) ==
    Cardinality({j \in 0 .. k - 1 : j < 8 * Len(bitmap) /\ BitSet(bitmap, j)})

\* Byte p of the logical partition of a bitmap image.
LogicalByte(img, p) ==
    LET k == p \div BlockSize(img) IN
    IF k < 8 * Len(img.bitmap) /\ BitSet(img.bitmap, k)
    THEN BlockBytes(k, BlockSize(img))[(p % BlockSize(img)) + 1]
    ELSE 0

\* The header's sizes agree with the bitmap, and a PartClone header without
\* checksums sets no checksum size or period.
HeaderAgrees(img) ==
    /\ TotalSize(img) = TotalBlocks(img) * BlockSize(img)
    /\ img.tool = "partclone" /\ img.checksum_mode = 0
           => img.checksum_size = 0 /\ img.checksum_blocks = 0

\* NtfsClone: the position of the i-th command of the writer and the number
\* of the first cluster it is about.
RECURSIVE CmdPos(_, _)
CmdPos(img, i) ==
    IF i = 1 THEN img.offset_to_image_data
    ELSE CmdPos(img, i - 1)
           + Len(EncodeCmd(img.gen.cmds[i - 1], img.cluster_size))

RECURSIVE CmdCluster(_, _)
CmdCluster(img, i) ==
    IF i = 1 THEN 0
    ELSE CmdCluster(img, i - 1) + img.gen.cmds[i - 1].count

\* buildBlockIndex reads the whole stream without an error.
StreamIsRead(img) == NtfsBuildBlockIndex(img).exc = ""

----------------------------------------------------------------------------
(* Properties.                                                             *)

\* C1: read_data(offset, size) returns exactly the bytes
\* [offset, min(offset + size, T)) of the logical partition, stored blocks at
\* their place and zero bytes for unused blocks, and nothing from T on.
\* Stated for the bitmap images whose header agrees with the bitmap.
C1_ReadDataReturnsPartitionBytes ==
    (call.op = "read_data" /\ BitmapFormat(image) /\ HeaderAgrees(image)) =>
        LET T    == BlockIOTotalSize(image)
            last == Min(call.arg + call.arg2, T)
        IN  call.result
              = OkData([i \in 1 .. Max(0, last - call.arg) |->
                           LogicalByte(image, call.arg + i - 1)])

\* The offset a linear scan of the data section computes for used block k.
LinearScanOffset(img, k) ==
    LET r == UsedBelow(img.bitmap, k)
        interleaved == (img.tool = "partimage" \/ img.checksum_mode = 32)
                       /\ img.checksum_blocks > 0
    IN  BlocksSectionOffset(img) + r * BlockSize(img)
          + (IF interleaved
             THEN (r \div img.checksum_blocks) * img.checksum_size
             ELSE 0)

\* C2: for a bitmap image getBlockOffset(k) is the offset of a linear scan
\* for every k whose bit is set, and None for every k whose bit is clear.
C2_OffsetEqualsLinearScan ==
    (call.op = "getBlockOffset" /\ BitmapFormat(image)
       /\ call.arg >= 0 /\ call.arg < 8 * Len(image.bitmap)) =>
        IF BitSet(image.bitmap, call.arg)
        THEN call.result = Ok(LinearScanOffset(image, call.arg))
        ELSE call.result = None

\* C3: for a stream that buildBlockIndex reads without an error and a block
\* number k that getBlockOffset admits: if a 0x01 command stores cluster k,
\* getBlockOffset(k) is the position of the byte after that command byte,
\* which is range.offset + (k - range.start) * (cluster_size + 1) for the
\* used range holding k; if k lies in a 0x00 run, it is None.
C3_StoredClusterOffset ==
    (call.op = "getBlockOffset" /\ image.tool = "ntfsclone"
       /\ StreamIsRead(image)
       /\ call.arg >= 0 /\ call.arg <= image.nr_clusters) =>
        \A i \in 1 .. Len(image.gen.cmds) :
          LET c == image.gen.cmds[i]
              k == call.arg
          IN  /\ (c.cmd = 1 /\ CmdPos(image, i) < FileSize(image.file)
                    /\ CmdCluster(image, i) = k) =>
                    /\ call.result = Ok(CmdPos(image, i) + 1)
                    /\ \E j \in 1 .. Len(index) :
                         /\ index[j].used
                         /\ index[j].start <= k /\ k < RangeEnd(index[j])
                         /\ call.result.value
                              = index[j].offset + (k - index[j].start)
                                                    * (image.cluster_size + 1)
              /\ (c.cmd = 0 /\ CmdPos(image, i) + 9 <= FileSize(image.file)
                    /\ CmdCluster(image, i) <= k
                    /\ k < CmdCluster(image, i) + c.count) =>
                    call.result = None

\* C3, witness: getBlockOffset has answered for a stored cluster that is not
\* the first of its used range, after an unused run.
C3_Witness ==
    /\ call.op = "getBlockOffset" /\ image.tool = "ntfsclone"
    /\ StreamIsRead(image)
    /\ call.result.status = "ok"
    /\ \E j \in 1 .. Len(index) :
         /\ index[j].used /\ index[j].start > 0
         /\ index[j].start < call.arg /\ call.arg < RangeEnd(index[j])

\* C4: after buildBlockIndex has read a command stream without an error,
\* the ranges are in ascending order, the first starts at cluster 0, each
\* starts where the one before ends, the last ends at nr_clusters, and a
\* range has an offset other than -1 iff it is used.
C4_RangesCoverAllClusters ==
    (call.op = "buildBlockIndex" /\ image.tool = "ntfsclone"
       /\ call.result.status # "raise") =>
        /\ Len(index) > 0
        /\ index[1].start = 0
        /\ \A j \in 2 .. Len(index) :
             /\ index[j].start = RangeEnd(index[j - 1])
             /\ index[j - 1].start <= index[j].start
        /\ RangeEnd(index[Len(index)]) = image.nr_clusters
        /\ \A j \in 1 .. Len(index) : (index[j].offset # -1) <=> index[j].used

\* C5: getBlockOffset(k) and blockInUse(k) fail with an out-of-range error
\* for every k < 0 and every k >= totalBlocks().
C5_OutOfRangeRaises ==
    (call.op \in {"getBlockOffset", "blockInUse"}
       /\ (call.arg < 0 \/ call.arg >= TotalBlocks(image))) =>
        /\ call.result.status = "raise"
        /\ call.result.exc \in {"ImageBackupException", "NtfsCloneException"}

\* C6: a blockReader run that completes without error has passed exactly
\* usedBlocks() blocks to the callback, in strictly ascending order of their
\* block numbers, each block number below totalBlocks().
C6_ReaderVisitsUsedBlocks ==
    (rd.pc = "done" /\ rd.exc = "") =>
        /\ Len(rd.calls) = UsedBlocks(image)
        /\ \A i \in 1 .. Len(rd.calls) - 1 :
             rd.calls[i].block_no < rd.calls[i + 1].block_no
        /\ \A i \in 1 .. Len(rd.calls) :
             rd.calls[i].block_no < TotalBlocks(image)

\* C7: blockReader calls fn with the byte offset of the block in the
\* partition, block number * block size, as first argument and the
\* block_size bytes of that block as second argument.
C7_CallbackGetsByteOffset ==
    rd.pc # "idle" =>
        \A i \in 1 .. Len(rd.calls) :
          /\ rd.calls[i].offset = rd.calls[i].block_no * BlockSize(image)
          /\ Len(rd.calls[i].block) = BlockSize(image)

\* The checks of a PartClone run inside its loop, and the one after it.
InlineChecks(r) == SelectSeq(r.checks, LAMBDA k : ~k.final)
FinalChecks(r)  == SelectSeq(r.checks, LAMBDA k : k.final)

\* C8: with checksum_mode 32, checksum_blocks = c > 0 and verify_crc, the
\* run reads a stored checksum after exactly the c-th, 2c-th, ... used block
\* and one final checksum iff N mod c # 0; each is compared with the CRC over
\* the blocks since the previous check when checksum_reseed is nonzero, over
\* all blocks since the first one otherwise; a mismatch raises an error.
C8_PartCloneChecks ==
    (rd.pc # "idle" /\ rd.verify /\ image.checksum_mode = 32
       /\ image.checksum_blocks > 0) =>
        LET c == image.checksum_blocks
            N == UsedBelow(image.bitmap, 8 * Len(image.bitmap))
        IN  /\ \A i \in 1 .. Len(InlineChecks(rd)) :
                 InlineChecks(rd)[i].after = i * c
            /\ Len(InlineChecks(rd)) <= Len(rd.read) \div c
            /\ rd.exc # "struct.error" =>
                 Len(InlineChecks(rd)) = Len(rd.read) \div c
            /\ Len(FinalChecks(rd)) <= 1
            /\ Len(FinalChecks(rd)) = 1 =>
                 /\ N % c # 0
                 /\ rd.checks[Len(rd.checks)].final
                 /\ rd.checks[Len(rd.checks)].after = N
            /\ (rd.pc = "done" /\ rd.exc = "") =>
                 /\ Len(rd.read) = N
                 /\ Len(InlineChecks(rd)) = N \div c
                 /\ Len(FinalChecks(rd)) = IF N % c # 0 THEN 1 ELSE 0
            /\ \A i \in 1 .. Len(rd.checks) :
                 LET k     == rd.checks[i]
                     first == IF image.checksum_reseed # 0
                              THEN ((k.after - 1) \div c) * c + 1
                              ELSE 1
                 IN  /\ k.seed = crc32(Concat(SubSeq(rd.read, first, k.after)),
                                       CRC32_SEED)
                     /\ k.stored # k.seed =>
                          /\ rd.pc = "done"
                          /\ rd.exc = "PartCloneException"
                          /\ i = Len(rd.checks)

\* C8, witness: the run over 200 used blocks with a checksum after every 64
\* has ended without error after 3 checks inside the loop and the final one.
C8_Witness ==
    /\ rd.pc = "done" /\ rd.exc = "" /\ rd.verify
    /\ image.checksum_mode = 32 /\ image.checksum_blocks = 64
    /\ Len(rd.read) = 200
    /\ Len(InlineChecks(rd)) = 3 /\ Len(FinalChecks(rd)) = 1

\* The record of check k of a PartImage run is what the reader accepts: the
\* magic, the start of the range of usedBlocksRange that holds the block
\* before the record, and the CRC of the blocks since the record before.
ValidRecord(r, k, q) ==
    LET b == r.block_nos[k.after] IN
    /\ k.record.kind = "check"
    /\ k.record.magic = "CHK"
    /\ \E j \in 1 .. Len(r.ranges) :
         /\ r.ranges[j].start <= b
         /\ b < r.ranges[j].start + r.ranges[j].length
         /\ k.record.pos = r.ranges[j].start
    /\ k.record.crc = [j \in 1 .. q |-> r.read[k.after - q + j]]

\* C9: PartImage.blockReader consumes a check record right after each block
\* that brings the payload since the previous record to at least 65536
\* bytes and at no other point; it raises an error if the magic, the index
\* or the CRC of the record is wrong; after a valid record the payload
\* counter and the CRC restart from 0.  Of a file as partimage writes it
\* with blocks for a record, the first record is consumed.
C9_PartImageCheckRecords ==
    rd.pc = "done" =>
        LET bs == image.gen.blockSize
            q  == (PARTIMAGE_CHECK_FREQUENCY + bs - 1) \div bs
        IN  /\ \A i \in 1 .. Len(rd.checks) : rd.checks[i].after = i * q
            /\ Len(rd.checks) <= Len(rd.read) \div q
            /\ \A i \in 1 .. Len(rd.checks) :
                 ~ValidRecord(rd, rd.checks[i], q) =>
                     /\ rd.exc # ""
                     /\ i = Len(rd.checks)
            /\ (image.gen.cut = 0 /\ image.gen.bad.at = 0
                   /\ image.gen.usedBlocks >= q)
                 => /\ Len(rd.checks) >= 1
                    /\ ValidRecord(rd, rd.checks[1], q)

----------------------------------------------------------------------------
(* PartImage.usedBlocksRange as a function of the bitmap, of               *)
(* max_block_range, which blockReader sets from the block size, and of     *)
(* idx.                                                                    *)

RangeBlockSizes == {512, 4096, 16384, 49152, 65536}

InitUsedBlocksRange ==
    /\ image \in {[tool |-> "bitmap", bitmap |-> bm, blockSize |-> bs,
                   max_block_range |-> MaxBlockRange(bs)] :
                     bm \in PartImageBitmaps, bs \in RangeBlockSizes}
    /\ index = << >>
    /\ call = NoCall
    /\ rd = NoReader

UsedBlocksRangeCall ==
    /\ \E idx \in 0 .. 8 * Len(image.bitmap) :
         call' = [op |-> "usedBlocksRange", arg |-> idx, arg2 |-> 0,
                  result |-> UsedBlocksRange(image.bitmap,
                                             image.max_block_range, idx)]
    /\ UNCHANGED <<image, index, rd>>

SpecUsedBlocksRange == InitUsedBlocksRange /\ [][UsedBlocksRangeCall]_vars

\* C10: max_block_range = 262144 div block_size (64 for block_size 4096, 512
\* for 512) and every range usedBlocksRange returns has a length of at most
\* max_block_range, for every bitmap, start index and block size.
C10_RangesAreCapped ==
    /\ MaxBlockRange(4096) = 64 /\ MaxBlockRange(512) = 512
    /\ call.op = "usedBlocksRange" =>
         /\ image.max_block_range = 262144 \div image.blockSize
         /\ call.result.exc = "" =>
              call.result.length <= image.max_block_range

\* What usedBlocksRange is to return for idx: the first set bit from idx on
\* and the length of its run of set bits, at most max_block_range.
ExpectedRange(bitmap, max_block_range, idx) ==
    LET bits == {j \in idx .. 8 * Len(bitmap) - 1 : BitSet(bitmap, j)}
        s    == CHOOSE j \in bits : \A q \in bits : j <= q
        ends == {e \in s + 1 .. 8 * Len(bitmap) :
                    /\ \A q \in s .. e - 1 : BitSet(bitmap, q)
                    /\ e = 8 * Len(bitmap) \/ ~BitSet(bitmap, e)}
        e    == CHOOSE q \in ends : TRUE
    IN  IF bits = {} THEN [start |-> -1, length |-> 0]
        ELSE [start |-> s, length |-> Min(e - s, max_block_range)]

\* C11: every call usedBlocksRange(idx), 0 <= idx <= 8*len(bitmap), returns
\* the first set bit s >= idx and the length of the run of set bits from s,
\* capped at max_block_range, and (-1, 0) when no bit from idx on is set;
\* none of these calls fails, the one with idx = 8*len(bitmap) included.
C11_UsedBlocksRangeIsFirstRun ==
    call.op = "usedBlocksRange" =>
        LET x == ExpectedRange(image.bitmap, image.max_block_range, call.arg)
        IN  /\ call.result.exc = ""
            /\ call.result.start = x.start
            /\ call.result.length = x.length

\* The strides of the index that results are compared over.
Strides == {8, 24}

\* The image opened with another block_offset_size.
WithStride(img, stride) == [img EXCEPT !.block_offset_size = stride]

\* C12: for a bitmap image, getBlockOffset(k) and read_data(offset, size)
\* return the same with every index stride that is a positive multiple of 8.
C12_StrideChangesNoResult ==
    \A stride \in Strides :
        LET other == WithStride(image, stride) IN
        /\ call.op = "getBlockOffset" =>
              call.result = GetBlockOffset(other, << >>, call.arg).result
        /\ call.op = "read_data" =>
              call.result = ReadData(other, BuildBlockIndex(other, << >>),
                                     call.arg, call.arg2)

\* C12, witness: a used block of the second bitmap byte is looked up by way
\* of the only entry of an index with stride 16, over interleaved checksums,
\* where the index with stride 8 has an entry of its own for that byte.
C12_Witness ==
    /\ call.op = "getBlockOffset" /\ call.result.status = "ok"
    /\ call.arg >= 8
    /\ image.block_offset_size = 16 /\ Len(index) = 1
    /\ image.checksum_blocks = 3
    /\ Len(BuildBlockIndex(WithStride(image, 8), << >>)) = 2
    /\ BuildBlockIndex(WithStride(image, 8), << >>)[2].cksum_offset # 0

----------------------------------------------------------------------------
(* Opening a PartClone file: PartClone.__init__ is called with files whose *)
(* header fields and bitmap are chosen independently of each other.        *)

\* The largest block count a header of these files states.
MaxUsedField == 8 * MaxBitmapBytes

\* A file with a bitmap, a total_blocks that is "less" less than the bitmap
\* has bits, two block counts, a checksum mode and an index stride.  A file
\* whose total_blocks is more than its bitmap has bits ends inside its bitmap.
OpenSource(bm, less, ub, um, mode, stride) ==
    [header |-> [fs_total_size   |-> (8 * Len(bm) - less) * SmallBlockSize,
                 fs_total_blocks |-> 8 * Len(bm) - less,
                 fs_used_blocks  |-> ub,
                 fs_used_bitmap  |-> um,
                 fs_block_size   |-> SmallBlockSize,
                 checksum_mode   |-> mode,
                 checksum_size   |-> 4,
                 checksum_blocks |-> 1,
                 checksum_reseed |-> 1,
                 endian          |-> "<"],
     bitmap |-> bm,
     block_offset_size |-> stride,
     data |-> << >>,
     gen |-> [cut |-> 0, flip |-> 0]]

\* The files: any bitmap, a total_blocks that leaves 0, 3 or 5 bits of the
\* last byte as padding or is one more than the bitmap has bits, and any two
\* block counts; and the files with the counts of the bitmap whose checksum
\* mode is not supported or whose index stride is no multiple of 8.
OpenSources ==
    {OpenSource(bm, less, ub, um, 32, 8) :
        bm \in Bitmaps, less \in {-1, 0, 3, 5},
        ub \in 0..MaxUsedField, um \in 0..MaxUsedField}
    \cup
    {OpenSource(bm, 0, BitsSetIn(bm, 0, Len(bm)), 0, c[1], c[2]) :
        bm \in Bitmaps, c \in {<<1, 8>>, <<0, 12>>}}

NotOpened == [tool |-> "none"]

InitPartCloneOpen ==
    /\ image = NotOpened
    /\ index = << >>
    /\ call = NoCall
    /\ rd = NoReader

\* PartClone(file, filename, block_offset_size)
OpenPartClone ==
    /\ call = NoCall
    /\ \E src \in OpenSources :
        LET r == PartCloneOpen(src) IN
        /\ call' = [op |-> "PartClone", arg |-> src, arg2 |-> 0,
                    result |-> IF r.exc = "" THEN Ok(0) ELSE Raise(r.exc)]
        /\ image' = IF r.exc = "" THEN r.image ELSE NotOpened
        /\ UNCHANGED <<index, rd>>

SpecPartCloneOpen == InitPartCloneOpen /\ [][OpenPartClone]_vars

\* The bits of a bitmap that are set, among those below "limit".
SetBitsBelow(bitmap, limit) ==
    {k \in 0 .. 8 * Len(bitmap) - 1 : k < limit /\ BitSet(bitmap, k)}

\* C13: a PartClone file opens only if as many of the first total_blocks
\* bits of its bitmap are set as the larger of used_blocks and used_bitmap;
\* the opened image's bitmap has usedBlocks() bits set and none of them at
\* total_blocks or beyond.
C13_OpenChecksPopcount ==
    call.op = "PartClone" /\ call.result.status = "ok" =>
        LET h == call.arg.header IN
        /\ Cardinality(SetBitsBelow(call.arg.bitmap, h.fs_total_blocks))
              = Max(h.fs_used_blocks, h.fs_used_bitmap)
        /\ BitsSetIn(image.bitmap, 0, Len(image.bitmap)) = UsedBlocks(image)
        /\ \A k \in 0 .. 8 * Len(image.bitmap) - 1 :
              BitSet(image.bitmap, k) => k < TotalBlocks(image)

\* C13, witness: a file opens whose last bitmap byte has bits set at
\* total_blocks and beyond, and whose two block counts differ.
C13_Witness ==
    /\ call.op = "PartClone" /\ call.result.status = "ok"
    /\ image.bitmap # call.arg.bitmap
    /\ call.arg.header.fs_used_blocks # call.arg.header.fs_used_bitmap
    /\ UsedBlocks(image) > 0

\* C14: for a PartClone image with checksum_mode 0, getBlockOffset(k) of a
\* used block k is blocksSectionOffset + r * block_size, r the number of
\* set bits below k, whatever the header's checksum_size and checksum_blocks
\* are; the block's bytes, which blockReader reads one block after the
\* other, are at that offset.
C14_ModeZeroHasNoChecksums ==
    (call.op = "getBlockOffset" /\ image.tool = "partclone"
       /\ image.checksum_mode = 0
       /\ call.arg >= 0 /\ call.arg < TotalBlocks(image)
       /\ BitSet(image.bitmap, call.arg)) =>
        LET r == UsedBelow(image.bitmap, call.arg)
            offset == BlocksSectionOffset(image) + r * BlockSize(image)
        IN  /\ call.result = Ok(offset)
            /\ image.gen.cut = 0 =>
                  FileRead(image.file, call.result.value, BlockSize(image))
                     = BlockBytes(call.arg, BlockSize(image))

----------------------------------------------------------------------------
(* The format probe: the three decoders' constructors up to their check of *)
(* the magic and of what follows it in the first bytes, and readImage,     *)
(* which calls a decoder and, on WrongImageFile, calls itself with the     *)
(* decoder the magic names.  A file is the first 52 of its bytes, its      *)
(* size, whether the bytes after these are those of a well-formed image of *)
(* the format the magic names (they are zero bytes otherwise), and whether *)
(* it is a regular file.  WrongImageFile is an ImageBackupException that   *)
(* carries the bytes read and returns them from getMagic().                *)

\* b'partclone-image'
PARTCLONE ==
    <<112, 97, 114, 116, 99, 108, 111, 110, 101, 45, 105, 109, 97, 103,
      101>>
\* b'\0ntfsclone-image'
NTFSCLONE ==
    <<0, 110, 116, 102, 115, 99, 108, 111, 110, 101, 45, 105, 109, 97, 103,
      101>>

\* GZIP 0x8b1f, BZIP2 0x5a42, ZSTD 0xb528, XZ 0x37fd, LZMA 0x005d, LZ4 0x2204:
\* names of the module utilities.
CompressionMagics == {35615, 23106, 46376, 14333, 93, 8708}

NTFSCLONE_HEADER_SIZE == 50

VER_MAJOR == 10

\* self.img_version != '0002'
IMG_VERSION == <<48, 48, 48, 50>>

\* struct.pack('<H', e) for e in [0xc0de, 0xdec0]
EndianMarkers == {<<222, 192>>, <<192, 222>>}

\* PartClone.__init__: the magic, the versions, the endian marker and the
\* name of the file system, then the rest of the header and the bitmap.
DecodePartClone(file, pos) ==
    LET buffer == ProbeRead(file, pos, PARTCLONE_READ_SIZE)
        b      == buffer.head
    IN
    IF Prefix(b, Len(PARTCLONE)) # PARTCLONE
    THEN Rejected("PartCloneException")
    ELSE IF ~Utf8Valid(Slice(b, 16, 30)) \/ ~Utf8Valid(Slice(b, 30, 34))
    THEN Rejected("UnicodeDecodeError")
    ELSE IF Slice(b, 30, 34) # IMG_VERSION THEN Rejected("PartCloneException")
    ELSE IF Len(Slice(b, 34, 36)) < 2 THEN Rejected("struct.error")
    ELSE IF Slice(b, 34, 36) \notin EndianMarkers
    THEN Rejected("PartCloneException")
    ELSE IF ~Utf8Valid(Slice(b, 36, 52)) THEN Rejected("UnicodeDecodeError")
    ELSE IF buffer.len < PARTCLONE_READ_SIZE THEN Rejected("struct.error")
    ELSE IF file.valid THEN Opened("partclone")
    ELSE Rejected("PartCloneException")

\* file.read(self.offset_to_image_data - self.HEADER_SIZE) raises ValueError
\* for a length below -1: b holds the four bytes of offset_to_image_data.
NegativeLength(b) ==
    b[2] = 0 /\ b[3] = 0 /\ b[4] = 0 /\ b[1] < NTFSCLONE_HEADER_SIZE - 1

\* NtfsClone.__init__: the 50-byte header, its magic, its major version, and
\* the read up to offset_to_image_data.
DecodeNtfsClone(file, pos) ==
    LET buffer == ProbeRead(file, pos, NTFSCLONE_HEADER_SIZE) IN
    IF buffer.len < NTFSCLONE_HEADER_SIZE THEN Rejected("NtfsCloneException")
    ELSE IF Prefix(buffer.head, Len(NTFSCLONE)) # NTFSCLONE
    THEN WrongImageFile(buffer)
    ELSE IF buffer.head[17] # VER_MAJOR THEN Rejected("NtfsCloneException")
    ELSE IF NegativeLength(Slice(buffer.head, 46, 50))
    THEN Rejected("ValueError")
    ELSE Opened("ntfsclone")

\* PartImage.__init__: the volume header, then the other headers.
DecodePartImage(file, pos) ==
    LET v == VolumeHeader(file, pos) IN
    IF v.status # "ok" THEN v
    ELSE IF file.valid THEN Opened("partimage")
    ELSE Rejected("PartImageException")

\* fn(file) for the decoder fn.
Decode(fn, file, pos) ==
    IF fn = "partclone" THEN DecodePartClone(file, pos)
    ELSE IF fn = "ntfsclone" THEN DecodeNtfsClone(file, pos)
    ELSE DecodePartImage(file, pos)

Decoders == {"partclone", "partimage", "ntfsclone"}

\* struct.unpack('<H', magic[:2])[0]
MagicWord(magic) == magic[1] + 256 * magic[2]

\* What one call of readImage does after fn(file) raised WrongImageFile e
\* with e.getMagic() = magic: the decoder and the file of the call it makes
\* of itself, or the exception it raises.  A magic of two bytes or more
\* that is none of the three is compared with ImageBackup.GZIP, which the
\* class does not have: the comparison raises AttributeError.
Redispatch(e, fn, file, sequential) ==
    LET again(d, f) == [exc |-> "", fn |-> d, file |-> f]
        fails(x)    == [exc |-> x, fn |-> fn, file |-> file]
    IN
    IF Prefix(e.magic, Len(NTFSCLONE)) = NTFSCLONE
    THEN IF file.regular THEN again("ntfsclone", file) ELSE fails(e.exc)
    ELSE IF Prefix(e.magic, Len(PARTCLONE)) = PARTCLONE
    THEN IF file.regular THEN again("partclone", file) ELSE fails(e.exc)
    ELSE IF Prefix(e.magic, Len(PARTIMAGE)) = PARTIMAGE
    THEN IF file.regular THEN again("partimage", file) ELSE fails(e.exc)
    ELSE IF e.len >= 2 THEN fails("AttributeError")
    ELSE fails(e.exc)

\* The files.  The first 52 bytes of a PartClone image (partclone 0.3.13,
\* image version 0002, little endian, NTFS) and the same without an image
\* version; of an NtfsClone image (version 10.1, cluster size 2, 3 clusters,
\* 1 in use, data at 56), the same with another byte from the 33rd on, with
\* major version 9, and with the data at 48, 49 and 50; of a PartImage
\* volume (version 0.6.1) and the same with a byte set among the 16 zero
\* bytes of the magic; bytes that are no magic; and the magic word of a
\* compressed file.
Zeros(n) == [i \in 1 .. n |-> 0]

PartCloneHead ==
    PARTCLONE \o <<0, 48, 46, 51, 46, 49, 51>> \o Zeros(8)
        \o IMG_VERSION \o <<222, 192>> \o <<78, 84, 70, 83>> \o Zeros(12)
PartCloneNoVersionHead == Prefix(PartCloneHead, 30) \o Zeros(22)

NtfsCloneHead ==
    NTFSCLONE \o <<VER_MAJOR, 1, 2, 0, 0, 0>> \o PackLE8(6) \o PackLE8(3)
        \o PackLE8(1) \o <<56, 0, 0, 0, 0, 0>>
NtfsCloneFilledHead(fill) ==
    Prefix(NtfsCloneHead, 32) \o [i \in 1 .. 20 |-> fill]
NtfsCloneOldHead == [NtfsCloneHead EXCEPT ![17] = 9]
NtfsCloneDataAt(offset) == [NtfsCloneHead EXCEPT ![47] = offset]
NtfsCloneHeads ==
    {NtfsCloneHead, NtfsCloneOldHead}
        \cup {NtfsCloneFilledHead(fill) : fill \in {0, 7, 255}}
        \cup {NtfsCloneDataAt(offset) : offset \in {48, 49, 50}}

PartImageHead == PARTIMAGE \o <<48, 46, 54, 46, 49>> \o Zeros(15)
PartImageBadHead == [PartImageHead EXCEPT ![20] = 1]

OtherHead == <<120, 121>> \o Zeros(50)
WordHead(word) == <<word % 256, word \div 256>> \o Zeros(50)

ProbeHeads ==
    {PartCloneHead, PartCloneNoVersionHead, PartImageHead, PartImageBadHead,
     OtherHead}
        \cup NtfsCloneHeads \cup {WordHead(w) : w \in CompressionMagics}

\* The sizes of the files: shorter than an NtfsClone header, between that
\* and a volume header, and longer than a volume header and three headers
\* of HEADER_SIZE bytes.
ProbeSizes == {40, 200, 60000}

ProbeFile(head, size, valid, regular) ==
    [head |-> Prefix(head, size), size |-> size, valid |-> valid,
     regular |-> regular]

\* A file of this head and size can be a well-formed image: it has the
\* first bytes of an image and is as long as that format's headers.
CanBeValid(head, size) ==
    \/ head \in {PartCloneHead, NtfsCloneHead} /\ size >= 200
    \/ head = PartImageHead /\ size > VOLUME_HEADER_SIZE + 3 * HEADER_SIZE

ProbeFiles ==
    {ProbeFile(c.head, c.size, c.valid, c.regular) :
        c \in {d \in [head : ProbeHeads, size : ProbeSizes, valid : BOOLEAN,
                      regular : BOOLEAN] :
                 d.valid => CanBeValid(d.head, d.size)}}

InitReadImage ==
    /\ image \in ProbeFiles
    /\ index = << >>
    /\ call = NoCall
    /\ rd = NoReader

\* PartClone(file, name), PartImage(file, name) or NtfsClone(file, name) on
\* the file at position 0.
OpenImage ==
    /\ call = NoCall /\ rd.pc = "idle"
    /\ \E fn \in Decoders :
          call' = [op |-> fn, arg |-> image, arg2 |-> 0,
                   result |-> Decode(fn, image, 0)]
    /\ UNCHANGED <<image, index, rd>>

\* The caller of readImage(file, name, block_index_size, sequential, fn).
ReadImageStart ==
    /\ call = NoCall /\ rd.pc = "idle"
    /\ \E fn \in Decoders, sequential \in BOOLEAN :
          /\ call' = [op |-> "readImage", arg |-> image, arg2 |-> fn,
                      result |-> None]
          /\ rd' = [pc |-> "call", fn |-> fn, file |-> image, pos |-> 0,
                    sequential |-> sequential, depth |-> 0,
                    first |-> Opened(""), result |-> Opened("")]
    /\ UNCHANGED <<image, index>>

\* The number of calls of readImage inside one another the interpreter
\* allows: the recursion limit of Python (1000 frames by default), made
\* small.
RecursionLimit == 6

\* One call of readImage: fn(file), and after WrongImageFile the seek to 0
\* and the call of readImage with the next decoder, or the exception.  depth
\* counts the calls made; the call beyond the recursion limit raises
\* RecursionError, which no call catches.
ReadImageCall ==
    /\ rd.pc = "call"
    /\ LET r    == Decode(rd.fn, rd.file, rd.pos)
           next == Redispatch(r, rd.fn, rd.file, rd.sequential)
           seen == [rd EXCEPT !.first = IF rd.depth = 0 THEN r ELSE @,
                              !.depth = @ + 1]
       IN  rd' = IF r.status = "ok" \/ r.exc # "WrongImageFile"
                 THEN [seen EXCEPT !.pc = "done", !.result = r]
                 ELSE IF next.exc # ""
                 THEN [seen EXCEPT !.pc = "done",
                                   !.result = [r EXCEPT !.exc = next.exc]]
                 ELSE IF seen.depth >= RecursionLimit
                 THEN [seen EXCEPT !.pc = "done",
                                   !.result = Rejected("RecursionError")]
                 ELSE [seen EXCEPT !.fn = next.fn, !.file = next.file,
                                   !.pos = 0]
    /\ UNCHANGED <<image, index, call>>

NextReadImage == OpenImage \/ ReadImageStart \/ ReadImageCall

SpecReadImage == InitReadImage /\ [][NextReadImage]_vars

----------------------------------------------------------------------------
(* vpartimage -c: main.utility on a PartImage file.                        *)

\* The file as the format probe sees it; the bytes after its head are not
\* those of an image of another format.
AsProbeFile(file) ==
    [head |-> file.head, size |-> file.size, valid |-> FALSE,
     regular |-> file.regular]

\* readImage(file, name, block_index_size, True, fn) with fn = PartImage,
\* from the call number depth + 1 on, up to the call in which PartImage
\* raises no WrongImageFile: the exception readImage ends with, or "" and
\* the format of the decoder of that call.  PartImage raises WrongImageFile
\* in VolumeHeader, its first step, and nowhere else; the file is at
\* position 0 in each call.
RECURSIVE ReadPartImage(_, _)
ReadPartImage(file, depth) ==
    LET e     == VolumeHeader(file, 0)
        next  == Redispatch(e, "partimage", file, TRUE)
        other == Decode(next.fn, AsProbeFile(file), 0)
    IN  IF e.exc # "WrongImageFile" THEN [exc |-> "", tool |-> "partimage"]
        ELSE IF next.exc # "" THEN [exc |-> next.exc, tool |-> ""]
        ELSE IF depth + 1 >= RecursionLimit
        THEN [exc |-> "RecursionError", tool |-> ""]
        ELSE IF next.fn = "partimage" THEN ReadPartImage(file, depth + 1)
        ELSE [exc |-> other.exc, tool |-> next.fn]

\* image = readImage(args.image, ..., fn); image.blockReader(verify_crc =
\* True), as main.utility runs them for vpartimage -c: the state of the
\* reader at the end of the run, "exc" the exception that has ended it.
\* blockReader gets no function fn.  The items of the file are its data
\* from the offset "base" on.
PartImageReadAll(file) ==
    LET o   == ReadPartImage(file, 0)
        s   == PartImageInit(file)
        img == PartImageObject(file, s)
    IN  IF o.exc # "" THEN NotRead(o.exc)
        ELSE IF o.tool # "partimage" THEN NotRead("")
        ELSE IF s.exc # "" THEN NotRead(s.exc)
        ELSE IF s.local = << >> THEN NotRead("AttributeError")
        ELSE IF s.dataBlocksOffset # file.base THEN NotRead("misaligned")
        ELSE BlockReaderLoop(img, PartImageReaderStart(img, FALSE))

PartImageRead ==
    /\ rd.pc = "idle"
    /\ rd' = PartImageReadAll(image)
    /\ UNCHANGED <<image, index, call>>

SpecPartImageReader == InitPartImageReader /\ [][PartImageRead]_vars

\* The format whose magic a file starts with.
FormatOf(f) ==
    IF Prefix(f.head, Len(PARTCLONE)) = PARTCLONE THEN "partclone"
    ELSE IF Prefix(f.head, Len(NTFSCLONE)) = NTFSCLONE THEN "ntfsclone"
    ELSE IF Prefix(f.head, Len(PARTIMAGE)) = PARTIMAGE THEN "partimage"
    ELSE "none"

\* C15: PartImage(file) on a file of 512 bytes or more raises WrongImageFile
\* only when the first 32 bytes are not 'PaRtImAgE-VoLuMe' and 16 zero
\* bytes, and a well-formed PartImage file opens as a PartImage image.
C15_VolumeHeaderAcceptsMagic ==
    call.op = "partimage" =>
        /\ (call.result.exc = "WrongImageFile"
              => FormatOf(call.arg) # "partimage")
        /\ (FormatOf(call.arg) = "partimage" /\ call.arg.valid
              => call.result = Opened("partimage"))

\* C16: readImage with a decoder of another format than that of the regular
\* file, a well-formed image: the decoder raises WrongImageFile with the
\* bytes it read, the call that follows is that of the format's decoder on
\* the file at position 0, and readImage returns that decoder's image.
C16_RedispatchOnWrongImageFile ==
    (call.op = "readImage" /\ call.arg.valid /\ call.arg.regular
       /\ call.arg2 # FormatOf(call.arg) /\ rd.depth = 1) =>
        /\ rd.first.exc = "WrongImageFile"
        /\ rd.first.magic = Prefix(call.arg.head, rd.first.len)
        /\ rd.pos = 0 /\ rd.file = call.arg
        /\ rd.pc = "call" => rd.fn = FormatOf(call.arg)
        /\ rd.pc = "done" => rd.result = Opened(FormatOf(call.arg))

----------------------------------------------------------------------------
(* Split files (utilities.ConcatFiles and LRU).  A directory holds the     *)
(* parts that split(1) wrote, of which some may have been removed, and     *)
(* other files next to them.  A name is its suffix, a sequence of letters  *)
(* counted from 'a' = 0; an open file is its position, no file is -1.      *)

MAX_OPEN_SPLIT_FILES == 48
YZ == 649
ZAAA == 439400

\* The suffix of the k-th file split(1) writes, k from 0: aa .. yz, zaaa ..
WrittenName(k) ==
    IF k < 650 THEN <<k \div 26, k % 26>>
    ELSE <<25, ((k - 650) \div 676) % 26, ((k - 650) \div 26) % 26,
           (k - 650) % 26>>

\* The k for which split(1) writes this suffix, or -1.
WrittenIndex(name) ==
    IF Len(name) = 2 /\ name[1] < 25 THEN 26 * name[1] + name[2]
    ELSE IF Len(name) = 4 /\ name[1] = 25
    THEN 650 + 676 * name[2] + 26 * name[3] + name[4]
    ELSE -1

\* os.path.exists(fname)
Exists(dir, name) ==
    \/ name \in dir.extra
    \/ /\ WrittenIndex(name) >= 0 /\ WrittenIndex(name) < Len(dir.sizes)
       /\ WrittenIndex(name) \notin dir.missing

\* os.stat(fname).st_size
StatSize(dir, name) ==
    IF name \in dir.extra THEN 1 ELSE dir.sizes[WrittenIndex(name) + 1]

\* The bytes of a file: they differ from one file to the next and from one
\* position to the next.
PartBytes(dir, name) ==
    [j \in 1 .. StatSize(dir, name) |->
        1 + ((7 * (26 * name[Len(name) - 1] + name[Len(name)]) + 3 * j) % 250)]

SplitFile(offset, size, filename, file) ==
    [offset |-> offset, size |-> size, filename |-> filename, file |-> file]

\* SplitFile.end()
End(sf) == sf.offset + sf.size

\* An idx that goes on to 650 after yz.
NextIdxNoJump(idx) == idx + 1

\* idx += 1 if idx != YZ else ZAAA - YZ
NextIdx(idx) == IF idx # YZ THEN idx + 1 ELSE idx + (ZAAA - YZ)

\* idx after s.n more passes of the loop that start with s.idx.
RECURSIVE IdxPasses(_)
IdxPasses(s) ==
    IF s.n = 0 THEN s
    ELSE IF s.n = 1 THEN [idx |-> NextIdx(s.idx), n |-> 0]
    ELSE IdxPasses([idx |-> IdxPasses([idx |-> s.idx, n |-> s.n \div 2]).idx,
                    n   |-> s.n - (s.n \div 2)])

IdxAfter(idx, n) == IdxPasses([idx |-> idx, n |-> n]).idx

\* fname without basename: chr(a+i) + chr(a+j), or four letters from ZAAA on.
SplitName(idx) ==
    IF idx < ZAAA THEN <<idx \div 26, idx % 26>>
    ELSE LET l == idx % 26
             k == (idx \div 26) % 26
             j == ((idx \div 26) \div 26) % 26
             i == ((idx \div 26) \div 26) \div 26
         IN  <<i, j, k, l>>

\* The first pass from..to of the loop whose fname does not exist, or 0.
RECURSIVE FirstMissing(_, _, _)
FirstMissing(dir, from, to) ==
    IF from > to THEN 0
    ELSE IF from = to
    THEN IF Exists(dir, SplitName(IdxAfter(0, from))) THEN 0 ELSE from
    ELSE LET mid   == (from + to) \div 2
             first == FirstMissing(dir, from, mid)
         IN  IF first # 0 THEN first ELSE FirstMissing(dir, mid + 1, to)

\* split_files after the passes from..to of the loop, which append
\* SplitFile(split_files[-1].end(), size, fname, None).
RECURSIVE Enumerate(_, _, _, _)
Enumerate(dir, from, to, split_files) ==
    IF from > to THEN split_files
    ELSE IF from = to
    THEN LET fname == SplitName(IdxAfter(0, from))
         IN  Append(split_files,
                    SplitFile(End(split_files[Len(split_files)]),
                              StatSize(dir, fname), fname, -1))
    ELSE LET mid  == (from + to) \div 2
             left == Enumerate(dir, from, mid, split_files)
         IN  IF Len(left) = 0 THEN left
             ELSE Enumerate(dir, mid + 1, to, left)

\* The passes of the loop a directory can take: one more than it has files.
MaxPasses(dir) == Len(dir.sizes) + Cardinality(dir.extra) + 1

\* ConcatFiles.__init__(file) for the file 'aa' of the directory, opened at
\* position 0.  "recent", "evict" and "closed" are history the code does
\* not keep: the parts with an open file in the order of their latest
\* activation, how many files the LRU closed during the last call and how
\* many of those were not the least recently activated one, and whether
\* close() has been called.
ConcatFilesInit(dir) ==
    LET aa   == SplitFile(0, StatSize(dir, <<0, 0>>), <<0, 0>>, 0)
        stop == FirstMissing(dir, 1, MaxPasses(dir))
    IN  [pc |-> "open",
         sequential |-> TRUE,
         cur_idx |-> 0,
         cur_offset |-> 0,
         split_files |-> Enumerate(dir, 1, stop - 1, <<aa>>),
         lru |-> <<0>>,
         exc |-> "",
         recent |-> <<0>>,
         evict |-> [count |-> 0, wrong |-> 0],
         closed |-> FALSE]

Without(seq, idx) == SelectSeq(seq, LAMBDA i : i # idx)

InSeq(seq, idx) == \E i \in 1 .. Len(seq) : seq[i] = idx

\* sf.file.close(); sf.file = None
CloseFile(cf, idx) ==
    [cf EXCEPT !.split_files[idx + 1].file = -1, !.recent = Without(@, idx)]

\* LRU.insert that leaves an entry it already has in its place.
LruInsertInPlace(cf, idx) ==
    LET lru == IF InSeq(cf.lru, idx) THEN cf.lru ELSE Append(cf.lru, idx)
    IN  IF Len(lru) > MAX_OPEN_SPLIT_FILES
        THEN IF cf.split_files[Head(lru) + 1].file = -1
             THEN [cf EXCEPT !.lru = Tail(lru)]
             ELSE [CloseFile(cf, Head(lru)) EXCEPT
                     !.lru = Tail(lru),
                     !.evict = [count |-> @.count + 1,
                                wrong |-> @.wrong
                                    + (IF cf.recent # << >>
                                          /\ Head(cf.recent) = Head(lru)
                                       THEN 0 ELSE 1)]]
        ELSE [cf EXCEPT !.lru = lru]

\* LRU.insert(idx, sf)
LruInsert(cf, idx) ==
    LET lru == Append(Without(cf.lru, idx), idx)
    IN  IF Len(lru) > MAX_OPEN_SPLIT_FILES
        THEN IF cf.split_files[Head(lru) + 1].file = -1
             THEN [cf EXCEPT !.lru = Tail(lru)]
             ELSE [CloseFile(cf, Head(lru)) EXCEPT
                     !.lru = Tail(lru),
                     !.evict = [count |-> @.count + 1,
                                wrong |-> @.wrong
                                    + (IF cf.recent # << >>
                                          /\ Head(cf.recent) = Head(lru)
                                       THEN 0 ELSE 1)]]
        ELSE [cf EXCEPT !.lru = lru]

\* ConcatFiles.close(): every open part is closed; the LRU keeps its
\* entries.
CloseAll(cf) ==
    [cf EXCEPT !.split_files =
                   [i \in 1 .. Len(@) |-> [@[i] EXCEPT !.file = -1]],
               !.recent = << >>,
               !.closed = TRUE]

\* LRU.remove(idx)
LruRemove(cf, idx) ==
    IF InSeq(cf.lru, idx)
    THEN [CloseFile(cf, idx) EXCEPT !.lru = Without(cf.lru, idx)]
    ELSE cf

AssertionFails(cf) == [cf EXCEPT !.exc = "AssertionError"]

\* newFile that leaves cur_offset alone when the part is open already.
NewFileKeepsOffset(cf, idx) ==
    IF ~(idx >= 0 /\ idx < Len(cf.split_files)) THEN AssertionFails(cf)
    ELSE LET c == [cf EXCEPT !.cur_idx = idx,
                             !.recent = Append(Without(@, idx), idx)]
             a == LruInsert(c, idx)
         IN  IF a.split_files[idx + 1].file = -1
             THEN [a EXCEPT !.split_files[idx + 1].file = 0,
                            !.cur_offset = 0]
             ELSE a

\* ConcatFiles.newFile(idx)
NewFile(cf, idx) ==
    IF ~(idx >= 0 /\ idx < Len(cf.split_files)) THEN AssertionFails(cf)
    ELSE LET c == [cf EXCEPT !.cur_idx = idx,
                             !.recent = Append(Without(@, idx), idx)]
             a == LruInsert(c, idx)
         IN  IF a.split_files[idx + 1].file = -1
             THEN [a EXCEPT !.split_files[idx + 1].file = 0,
                            !.cur_offset = 0]
             ELSE [a EXCEPT !.cur_offset = a.split_files[idx + 1].file]

\* self.cur
Cur(cf) == cf.split_files[cf.cur_idx + 1]

\* ConcatFiles.tell()
Tell(cf) == Cur(cf).offset + cf.cur_offset

\* The loop of byOffset from l, r on: the l it ends with, or -1 when it
\* does not end (l and r are what they were a pass before).
RECURSIVE ByOffsetSearch(_, _, _, _)
ByOffsetSearch(split_files, offset, l, r) ==
    IF ~(l < r) THEN l
    ELSE LET m == (l + r) \div 2 IN
         IF offset < split_files[m + 1].offset
         THEN ByOffsetSearch(split_files, offset, l, m)
         ELSE IF offset < End(split_files[m + 1]) THEN m
         ELSE IF m = l THEN -1
         ELSE ByOffsetSearch(split_files, offset, m, r)

\* ConcatFiles.byOffset(offset)
ByOffset(cf, offset) ==
    LET l == ByOffsetSearch(cf.split_files, offset, 0, Len(cf.split_files))
    IN  IF l = -1 THEN [cf EXCEPT !.exc = "diverges"]
        ELSE IF ~(cf.split_files[l + 1].offset <= offset
                    /\ offset < End(cf.split_files[l + 1]))
        THEN AssertionFails(cf)
        ELSE IF cf.cur_idx # l THEN NewFile(cf, l)
        ELSE cf

\* ConcatFiles.seek(pos)
SeekTo(cf, pos) ==
    LET total == End(cf.split_files[Len(cf.split_files)]) IN
    IF ~(pos >= 0 /\ pos <= total) THEN AssertionFails(cf)
    ELSE LET found ==
                 IF pos < Cur(cf).offset \/ pos >= End(Cur(cf))
                 THEN ByOffset([cf EXCEPT !.sequential = @ /\ pos = 0], pos)
                 ELSE cf
         IN  IF found.exc # "" THEN found
             ELSE IF pos # Cur(found).offset + found.cur_offset
             THEN LET moved == [found EXCEPT
                                   !.cur_offset = pos - Cur(found).offset]
                  IN  IF Cur(found).file = -1 THEN AssertionFails(moved)
                      ELSE [moved EXCEPT
                              !.split_files[found.cur_idx + 1].file =
                                  pos - Cur(found).offset]
             ELSE found

\* self.cur.file.read(sz): the bytes from the position of the open file on,
\* all of them for a negative sz.
HandleRead(dir, sf, sz) ==
    LET bytes == PartBytes(dir, sf.filename)
    IN  SubSeq(bytes, sf.file + 1,
               IF sz < 0 THEN Len(bytes) ELSE Min(sf.file + sz, Len(bytes)))

\* The loop of ConcatFiles.read(size): s holds the stream, the result so
\* far and whether the method has returned.
RECURSIVE ReadLoop(_, _, _)
ReadLoop(dir, s, size) ==
    IF s.returned \/ ~(Len(s.result) < size) THEN s
    ELSE LET cf  == s.cf
             sz  == size - Len(s.result)
             i   == cf.cur_idx + 1
             cur == cf.split_files[i]
         IN
         IF cf.cur_offset + sz <= cur.size
         THEN LET data  == HandleRead(dir, cur, sz)
                  moved == [cf EXCEPT !.cur_offset = @ + sz]
              IN  IF cur.file = -1
                  THEN [cf |-> AssertionFails(moved), result |-> s.result,
                        returned |-> TRUE]
                  ELSE ReadLoop(dir,
                           [cf |-> [moved EXCEPT
                                      !.split_files[i].file = @ + Len(data)],
                            result |-> s.result \o data,
                            returned |-> FALSE], size)
         ELSE IF cur.file = -1
         THEN [cf |-> AssertionFails(cf), result |-> s.result,
               returned |-> TRUE]
         ELSE LET rest   == cur.size - cf.cur_offset
                  data   == HandleRead(dir, cur, rest)
                  read   == [cf EXCEPT !.cur_offset = @ + rest,
                                       !.split_files[i].file = @ + Len(data)]
                  closed == IF read.sequential
                            THEN LruRemove(CloseFile(read, cf.cur_idx),
                                           cf.cur_idx)
                            ELSE read
                  next   == NewFile(closed, cf.cur_idx + 1)
                  rewound == IF next.cur_offset # 0
                             THEN [next EXCEPT
                                     !.cur_offset = 0,
                                     !.split_files[next.cur_idx + 1].file = 0]
                             ELSE next
              IN  IF cf.cur_idx < Len(cf.split_files) - 1
                  THEN ReadLoop(dir,
                           [cf |-> rewound, result |-> s.result \o data,
                            returned |-> rewound.exc # ""], size)
                  ELSE [cf |-> read, result |-> s.result \o data,
                        returned |-> TRUE]

\* ConcatFiles.read(size)
ReadFrom(dir, cf, size) ==
    ReadLoop(dir, [cf |-> cf, result |-> << >>, returned |-> FALSE], size)

----------------------------------------------------------------------------
(* The directories and the specifications of split files.                  *)

MaxParts == 3           \* parts of a short stream
PartSizes == {0, 1, 2}   \* the sizes of a part of a short stream

Dir(sizes, missing, extra) ==
    [sizes |-> sizes, missing |-> missing, extra |-> extra]

\* The directories of short streams: every part is there.
ShortDirs ==
    {Dir(sizes, {}, {}) :
        sizes \in UNION {[1..n -> PartSizes] : n \in 1..MaxParts}}

\* The directory of a stream with two parts more than files may be open,
\* each of one byte.
LongDir == Dir([k \in 1 .. MAX_OPEN_SPLIT_FILES + 2 |-> 1], {}, {})

\* Other files next to the parts: za and zz, which split(1) does not write,
\* a suffix of three letters, and aaaa.
OtherNames == {<<25, 0>>, <<25, 25>>, <<0, 0, 0>>, <<0, 0, 0, 0>>}

\* The directories ConcatFiles is opened on: the short ones, also with the
\* second part removed or another file added, and directories with a file
\* more or less than 26 and 650 parts, also with a part removed or another
\* file added.
OpenDirs ==
    ShortDirs
    \cup {Dir(d.sizes, {1}, {}) : d \in ShortDirs}
    \cup {Dir(d.sizes, {}, {<<25, 0>>}) : d \in ShortDirs}
    \cup {Dir([k \in 1..n |-> 1], missing, extra) :
             n \in {26, 27, 650, 651, 652},
             missing \in {{}, {26}, {650}},
             extra \in {{}} \cup {{e} : e \in OtherNames}}

InitConcatOpen ==
    /\ image \in OpenDirs
    /\ index = << >>
    /\ call = NoCall
    /\ rd = NoReader

\* ConcatFiles(file) with the file 'aa' of the directory.
ConcatOpen ==
    /\ call = NoCall
    /\ call' = [op |-> "ConcatFiles", arg |-> 0, arg2 |-> 0,
                result |-> Ok(0)]
    /\ rd' = ConcatFilesInit(image)
    /\ UNCHANGED <<image, index>>

SpecConcatOpen == InitConcatOpen /\ [][ConcatOpen]_vars

InitConcatFiles ==
    /\ image \in ShortDirs \cup {LongDir}
    /\ index = << >>
    /\ call = NoCall
    /\ rd = ConcatFilesInit(image)

\* The length of the stream.
StreamEnd(cf) == End(cf.split_files[Len(cf.split_files)])

\* The positions seek is called with: any one of a short stream up to its
\* end; the first two and the last one of the long stream.
SeekTargets(cf) ==
    IF Len(cf.split_files) > MaxParts
    THEN {0, 1, StreamEnd(cf) - 1}
    ELSE 0 .. StreamEnd(cf)

\* The sizes read is called with: the long stream is read to its end, or
\* as many bytes as parts may be open.
ConcatReadSizes(cf) ==
    IF Len(cf.split_files) > MaxParts
    THEN {MAX_OPEN_SPLIT_FILES, StreamEnd(cf)}
    ELSE {0, 1, 2, StreamEnd(cf)}

\* A call starts with no file closed by the LRU.
Calling(cf) == [cf EXCEPT !.evict = [count |-> 0, wrong |-> 0]]

\* What is left of a stream whose method raised or does not return.
Outcome(cf) ==
    IF cf.exc = "" THEN cf ELSE [cf EXCEPT !.pc = "failed"]

\* stream.seek(pos)
Seek ==
    /\ rd.pc = "open"
    /\ \E pos \in SeekTargets(rd) :
          LET cf == SeekTo(Calling(rd), pos) IN
          /\ call' = [op |-> "seek", arg |-> pos, arg2 |-> Tell(rd),
                      result |-> IF cf.exc = "" THEN Ok(Tell(cf))
                                 ELSE IF cf.exc = "diverges" THEN Diverges
                                 ELSE Raise(cf.exc)]
          /\ rd' = Outcome(cf)
    /\ UNCHANGED <<image, index>>

\* stream.read(size)
ReadStream ==
    /\ rd.pc = "open"
    /\ \E size \in ConcatReadSizes(rd) :
          LET r == ReadFrom(image, Calling(rd), size) IN
          /\ call' = [op |-> "read", arg |-> size, arg2 |-> Tell(rd),
                      result |-> IF r.cf.exc = "" THEN OkData(r.result)
                                 ELSE Raise(r.cf.exc)]
          /\ rd' = Outcome(r.cf)
    /\ UNCHANGED <<image, index>>

\* The streams close is called on: the long one and the short ones of one
\* and of two parts.
Closable(cf) ==
    Len(cf.split_files) > MaxParts \/ Len(cf.split_files) <= 2

\* stream.close()
CloseStream ==
    /\ rd.pc = "open" /\ Closable(rd)
    /\ call' = [op |-> "close", arg |-> 0, arg2 |-> Tell(rd), result |-> None]
    /\ rd' = CloseAll(Calling(rd))
    /\ UNCHANGED <<image, index>>

NextConcatFiles == Seek \/ ReadStream \/ CloseStream

SpecConcatFiles == InitConcatFiles /\ [][NextConcatFiles]_vars

----------------------------------------------------------------------------
(* Claims about split files.                                               *)

\* The bytes of the parts from the lo-th to the hi-th written file, one
\* after the other.
RECURSIVE StreamBytes(_, _, _)
StreamBytes(dir, lo, hi) ==
    IF lo > hi THEN << >>
    ELSE IF lo = hi THEN PartBytes(dir, WrittenName(lo))
    ELSE StreamBytes(dir, lo, (lo + hi) \div 2)
         \o StreamBytes(dir, (lo + hi) \div 2 + 1, hi)

\* The sum of the sizes of the parts from the lo-th to the hi-th written
\* file.
RECURSIVE SizeSum(_, _, _)
SizeSum(dir, lo, hi) ==
    IF lo > hi THEN 0
    ELSE IF lo = hi THEN dir.sizes[lo + 1]
    ELSE SizeSum(dir, lo, (lo + hi) \div 2)
         + SizeSum(dir, (lo + hi) \div 2 + 1, hi)

\* The single file holding all parts of the directory of SpecConcatFiles.
WholeFile == StreamBytes(image, 0, Len(image.sizes) - 1)

\* The number of the part that holds position p of the stream.
PartOf(cf, p) ==
    CHOOSE i \in 1 .. Len(cf.split_files) :
        /\ cf.split_files[i].offset <= p
        /\ \/ p < End(cf.split_files[i])
           \/ i = Len(cf.split_files)

\* C17: after any sequence of seek(p) with 0 <= p < total and read(n), tell()
\* is the position a single file holding the concatenation of all parts
\* would have: p after seek(p), and the position before the read plus the
\* number of bytes returned after read(n); read(n) returns the n bytes of
\* that file from the position on, fewer only at the end of the last part;
\* the length of the stream is the sum of the part sizes.  The sequence
\* holds no close().
C17_ReadsAsOneFile ==
    LET total  == SizeSum(image, 0, Len(image.sizes) - 1)
        before == call.arg2
    IN  /\ StreamEnd(rd) = total
        /\ Len(WholeFile) = total
        /\ (call.op = "seek" /\ call.arg < total /\ ~rd.closed)
              => /\ call.result = Ok(call.arg)
                 /\ Tell(rd) = call.arg
        /\ (call.op = "read" /\ ~rd.closed)
              => /\ call.result =
                       OkData(SubSeq(WholeFile, before + 1,
                                     Min(before + call.arg, total)))
                 /\ Tell(rd) = Min(before + call.arg, total)

\* A read of two bytes or more that starts in one part and ends in another
\* one, on a stream that is not sequential any more.
C17_Witness ==
    /\ call.op = "read" /\ ~rd.closed
    /\ call.result.status = "ok"
    /\ Len(call.result.data) >= 2
    /\ ~rd.sequential
    /\ call.arg2 > 0
    /\ PartOf(rd, call.arg2) # PartOf(rd, Tell(rd) - 1)

\* The parts with an open file.
OpenParts(cf) ==
    {i \in 1 .. Len(cf.split_files) : cf.split_files[i].file # -1}

\* C18: after any sequence of seek and read calls, at most 48 parts have an
\* open file; a file the LRU closed during the last call was, each time, the
\* one of the open part whose most recent activation was the oldest; and the
\* active part has an open file.  The sequence holds no close().
C18_AtMost48Open ==
    ~rd.closed =>
        /\ Cardinality(OpenParts(rd)) <= MAX_OPEN_SPLIT_FILES
        /\ rd.evict.wrong = 0
        /\ rd.cur_idx + 1 \in OpenParts(rd)

\* A read that made the LRU close a file with 48 files left open: the first
\* part, opened first and activated again later, is open, and the last part,
\* opened after it, is closed.
C18_Witness ==
    /\ call.op = "read" /\ ~rd.closed
    /\ rd.evict.count > 0
    /\ Cardinality(OpenParts(rd)) = MAX_OPEN_SPLIT_FILES
    /\ 1 \in OpenParts(rd)
    /\ Len(rd.split_files) \notin OpenParts(rd)

\* C19: while the sequential flag of a stream is True, at most one part has
\* an open file: a read that exhausts a part closes it and removes it from
\* the LRU before it opens the next one.
C19_SequentialHasOneOpen ==
    rd.sequential => Cardinality(OpenParts(rd)) <= 1

\* C20: ConcatFiles enumerates the parts in the order aa, ab, ..., az, ba,
\* ..., yz, zaaa, zaab, ...: the first 650 names have two letters and none
\* starts with z, the 651st is zaaa; every name enumerated exists and the
\* name after the last one does not; the offset of a part is the sum of the
\* sizes of the parts before it.
C20_EnumeratesSplitNames ==
    call.op = "ConcatFiles" =>
        LET n == Len(rd.split_files) IN
        /\ n >= 1
        /\ \A i \in 1 .. n :
              LET sf == rd.split_files[i] IN
              /\ sf.filename = WrittenName(i - 1)
              /\ i <= YZ + 1 => Len(sf.filename) = 2 /\ sf.filename[1] # 25
              /\ i = YZ + 2 => sf.filename = <<25, 0, 0, 0>>
              /\ Exists(image, sf.filename)
              /\ sf.size = image.sizes[i]
              /\ sf.offset = SizeSum(image, 0, i - 2)
        /\ ~Exists(image, WrittenName(n))

\* A directory of 652 parts and a file za next to them: all parts are
\* enumerated, the last one is zaab.
C20_Witness ==
    /\ call.op = "ConcatFiles"
    /\ image.extra = {<<25, 0>>}
    /\ Len(rd.split_files) = YZ + 3
    /\ rd.split_files[YZ + 3].filename = <<25, 0, 0, 1>>

----------------------------------------------------------------------------
(* Claims about termination.                                               *)

\* C27: for every cluster number k with 0 <= k <= nr_clusters and every
\* index built from a command stream, the binary search of
\* ClusterIndex.offset ends and its assertion holds: getBlockOffset(k)
\* returns an offset or None.
C27_ClusterSearchTerminates ==
    (call.op = "getBlockOffset"
       /\ call.arg >= 0 /\ call.arg <= image.nr_clusters
       /\ NtfsBuildBlockIndex(image).exc = "") =>
        call.result.status \in {"ok", "none"}

\* C28: seek(p) ends and leaves tell() = p for every p from 0 to the length
\* of the stream, the length included, also on streams with parts of no
\* bytes; the binary search of byOffset ends on a part that starts at or
\* before p.  The stream has not been closed.
C28_SeekTerminates ==
    (call.op = "seek" /\ ~rd.closed) =>
        /\ call.result = Ok(call.arg)
        /\ Tell(rd) = call.arg
        /\ Cur(rd).offset <= call.arg

\* The calls of readImage a file needs at most: the first one, one more to
\* unwrap a compressed file, and one more with the decoder of the magic.
CallsNeeded(f) ==
    IF Len(f.head) >= 2 /\ MagicWord(f.head) \in CompressionMagics THEN 3
    ELSE 2

\* C29: readImage ends for every file: after WrongImageFile it calls itself
\* at most once for a compression wrapper and once for the decoder of the
\* magic, never with the decoder and the file of the call that has just
\* failed, and the chain of calls ends in an image or an error of the
\* decoders.
C29_ReadImageTerminates ==
    call.op = "readImage" =>
        /\ rd.depth <= CallsNeeded(call.arg)
        /\ (rd.pc = "call" /\ rd.depth >= 1)
              => ~(/\ Decode(rd.fn, rd.file, 0).exc = "WrongImageFile"
                   /\ Redispatch(Decode(rd.fn, rd.file, 0), rd.fn, rd.file,
                                 rd.sequential)
                        = [exc |-> "", fn |-> rd.fn, file |-> rd.file])
        /\ rd.pc = "done" => rd.result.exc # "RecursionError"

----------------------------------------------------------------------------
(* Claims about errors.                                                    *)

\* C26: read_data never returns fewer bytes than the clamped request
\* min(size, T - offset): when the source holds fewer than block_size bytes
\* of a stored block it raises ImageBackupException instead.
C26_ShortBlockRaises ==
    call.op = "read_data" =>
        LET T       == BlockIOTotalSize(image)
            clamped == Max(0, Min(call.arg2, T - call.arg))
        IN  /\ call.result.status = "ok"
                 => Len(call.result.data) = clamped
            /\ call.result.status = "raise"
                 => call.result.exc = "ImageBackupException"

\* The checksums a PartClone writer stores for n used blocks: with mode 32,
\* one after every checksum_blocks blocks and one after the last block of
\* an incomplete group.
StoredChecksums(img, n) ==
    IF img.checksum_mode = 32 /\ img.checksum_blocks > 0
    THEN (n + img.checksum_blocks - 1) \div img.checksum_blocks
    ELSE 0

\* The position after the last used block and its final checksum.
EndOfBackup(img) ==
    LET n == UsedBelow(img.bitmap, 8 * Len(img.bitmap))
    IN  img.blocks_section + n * img.fs_block_size
        + 4 * StoredChecksums(img, n)

\* The run has read every used block and every checksum, and none of the
\* checksums it compared differs.
ReadToEndOfBackup(img, r) ==
    LET n == UsedBelow(img.bitmap, 8 * Len(img.bitmap)) IN
    /\ r.pc = "done"
    /\ Len(r.read) = n
    /\ \A i \in 1 .. n : Len(r.read[i]) = img.fs_block_size
    /\ Len(r.checks) = StoredChecksums(img, n)
    /\ \A i \in 1 .. Len(r.checks) :
          r.checks[i].seed = NoSeed \/ r.checks[i].stored = r.checks[i].seed

\* C23: PartClone.blockReader, once it has read the last used block and its
\* final checksum, raises an error iff the source holds at least one more
\* byte; it returns normally iff the source ends there, and it returns
\* normally in no other case.
C23_TrailingBytesRaise ==
    /\ ReadToEndOfBackup(image, rd) =>
          /\ rd.exc = "PartCloneException"
                <=> FileSize(image.file) > EndOfBackup(image)
          /\ rd.exc = "" <=> FileSize(image.file) = EndOfBackup(image)
    /\ (rd.pc = "done" /\ rd.exc = "") => ReadToEndOfBackup(image, rd)

\* A run over a backup with checksums and one byte after its last checksum
\* has read all blocks and checksums and has raised the error.
C23_Witness ==
    /\ ReadToEndOfBackup(image, rd)
    /\ image.gen.extra = 1
    /\ Len(rd.read) > 0 /\ Len(rd.checks) > 0
    /\ FileSize(image.file) = EndOfBackup(image) + 1
    /\ rd.exc = "PartCloneException"

----------------------------------------------------------------------------
(* PartClone: the header and the bitmap as bytes of the file.              *)

Reverse(b) == [i \in 1 .. Len(b) |-> b[Len(b) + 1 - i]]

\* struct.unpack of one integer in the byte order of the image; the
\* integers of the model fit in two bytes.
Unpack(endian, b) == UnpackLE(IF endian = "<" THEN b ELSE Reverse(b))

\* buffer[idx1:idx2]
Bytes(buffer, idx1, idx2) == Slice(buffer, idx1, idx2)

\* The outcome of PartClone.__init__: the exception and its message, the
\* position of the file, and the fields and the bitmap of the descriptor.
InitRaises(e, msg, pos) ==
    [pc |-> "rejected", exc |-> e, msg |-> msg, pos |-> pos]

\* PartClone.__init__ from the bitmap on.
PartCloneBitmap(file, endian, h, block_offset_size) ==
    LET size   == (h.fs_total_blocks + 7) \div 8
        bitmap == FileRead(file, PARTCLONE_READ_SIZE, size)
        after  == PARTCLONE_READ_SIZE + Len(bitmap)
        crc    == FileRead(file, after, 4)
        masked == MaskLastByte(bitmap, h.fs_total_blocks)
    IN
    IF Len(bitmap) # size
    THEN InitRaises("PartCloneException", "Unexpected end of file", after)
    ELSE IF Len(crc) # 4
    THEN InitRaises("struct.error", "", after + Len(crc))
    ELSE IF UnpackL(endian, crc) # crc32(bitmap, CRC32_SEED)
    THEN InitRaises("PartCloneException", "Bitmap CRC mismatch", after + 4)
    ELSE IF block_offset_size % 8 # 0
    THEN InitRaises("PartCloneException", "Block_offset_size", after + 4)
    ELSE IF BitsSetIn(masked, 0, Len(masked))
               # Max(h.fs_used_bitmap, h.fs_used_blocks)
    THEN InitRaises("PartCloneException", "blocks in use", after + 4)
    ELSE [pc |-> "opened", exc |-> "", msg |-> "", pos |-> after + 4,
          header |-> h, bitmap |-> masked, endian |-> endian,
          blocks_section |-> PARTCLONE_READ_SIZE + size + 4]

\* PartClone.__init__(file, filename, block_offset_size): the version of
\* partclone, the image version and the file system are decoded as UTF-8
\* before the checks that follow them.
PartCloneInit(file, block_offset_size) ==
    LET buffer == FileRead(file, 0, PARTCLONE_READ_SIZE)
        marker == Bytes(buffer, 34, 36)
        endian == IF marker = <<222, 192>> THEN "<" ELSE ">"
        q(i)   == Unpack(endian, Bytes(buffer, 52 + 8 * i, 60 + 8 * i))
        hw(i)  == Unpack(endian, Bytes(buffer, 92 + 2 * i, 94 + 2 * i))
        h      == [fs_total_size   |-> q(0),
                   fs_total_blocks |-> q(1),
                   fs_used_blocks  |-> q(2),
                   fs_used_bitmap  |-> q(3),
                   fs_block_size   |-> Unpack(endian, Bytes(buffer, 84, 88)),
                   checksum_mode   |-> hw(2),
                   checksum_size   |-> hw(3),
                   checksum_blocks |-> Unpack(endian, Bytes(buffer, 100, 104)),
                   checksum_reseed |-> buffer[105],
                   endian          |-> endian]
        pos    == Len(buffer)
    IN
    IF Bytes(buffer, 0, Len(PARTCLONE)) # PARTCLONE
    THEN InitRaises("PartCloneException", "is not a partclone image", pos)
    ELSE IF ~Utf8Valid(Bytes(buffer, 16, 30))
               \/ ~Utf8Valid(Bytes(buffer, 30, 34))
    THEN InitRaises("UnicodeDecodeError", "", pos)
    ELSE IF Bytes(buffer, 30, 34) # <<48, 48, 48, 50>>
    THEN InitRaises("PartCloneException", "Version not supported", pos)
    ELSE IF Len(marker) # 2
    THEN InitRaises("struct.error", "", pos)
    ELSE IF marker \notin {<<222, 192>>, <<192, 222>>}
    THEN InitRaises("PartCloneException", "Unexpected endianness", pos)
    ELSE IF ~Utf8Valid(Bytes(buffer, 36, 52))
    THEN InitRaises("UnicodeDecodeError", "", pos)
    ELSE IF Len(buffer) # PARTCLONE_READ_SIZE
    THEN InitRaises("struct.error", "", pos)
    ELSE IF h.checksum_mode \notin {0, 32}
    THEN InitRaises("PartCloneException", "Unsupported checksum mode", pos)
    ELSE IF UnpackL(endian, Bytes(buffer, 106, 110))
               # crc32(Bytes(buffer, 0, 106), CRC32_SEED)
    THEN InitRaises("PartCloneException", "Header CRC mismatch", pos)
    ELSE PartCloneBitmap(file, endian, h, block_offset_size)

\* struct.pack of one integer below 65536 in "width" bytes.
Pack(endian, n, width) ==
    LET le == [i \in 1 .. width |->
                 IF i = 1 THEN n % 256
                 ELSE IF i = 2 THEN (n \div 256) % 256 ELSE 0]
    IN  IF endian = "<" THEN le ELSE Reverse(le)

\* The first 106 bytes of the header a writer produces for the fields h:
\* partclone 0.3.13, image version 0002, file system NTFS, 64 bits.
HeaderBytes(h) ==
    PARTCLONE \o <<0>>
    \o <<48, 46, 51, 46, 49, 51>> \o [i \in 1..8 |-> 0]
    \o <<48, 48, 48, 50>>
    \o (IF h.endian = "<" THEN <<222, 192>> ELSE <<192, 222>>)
    \o <<78, 84, 70, 83>> \o [i \in 1..12 |-> 0]
    \o Pack(h.endian, h.fs_total_size, 8)
    \o Pack(h.endian, h.fs_total_blocks, 8)
    \o Pack(h.endian, h.fs_used_blocks, 8)
    \o Pack(h.endian, h.fs_used_bitmap, 8)
    \o Pack(h.endian, h.fs_block_size, 4)
    \o Pack(h.endian, 0, 4)
    \o Pack(h.endian, 2, 2)
    \o Pack(h.endian, 64, 2)
    \o Pack(h.endian, h.checksum_mode, 2)
    \o Pack(h.endian, h.checksum_size, 2)
    \o Pack(h.endian, h.checksum_blocks, 4)
    \o <<h.checksum_reseed, 1>>

\* What happened to a file after it was written: nothing; the checksum mode
\* became 5, or 0 instead of 32; the number of blocks in use, a letter of
\* the magic, the image version, the endian marker, a byte of the header
\* CRC or of the bitmap changed; the first byte of the version of partclone,
\* of the image version or of the file system became 0xff.
HeaderDamages ==
    {"none", "mode 5", "mode 0", "used blocks", "magic", "version", "marker",
     "header crc", "bitmap", "partclone version", "version 0xff",
     "file system"}

\* The bytes of the header with one of them replaced; pos counts from 0.
Patched(bytes, pos, b) == [bytes EXCEPT ![pos + 1] = b]

\* The file of a header, its CRC, the bitmap and its CRC, and the damage
\* done to it afterwards.
HeaderFile(h, bitmap, damage) ==
    LET head   == HeaderBytes(h)
        lo(k)  == IF h.endian = "<" THEN k ELSE k + 1
        whole  == head \o PackL(h.endian, crc32(head, CRC32_SEED))
                  \o bitmap \o PackL(h.endian, crc32(bitmap, CRC32_SEED))
        bytes  ==
            IF damage = "mode 5" THEN Patched(whole, lo(96), 5)
            ELSE IF damage = "mode 0" THEN Patched(whole, lo(96), 0)
            ELSE IF damage = "used blocks"
            THEN Patched(whole, IF h.endian = "<" THEN 68 ELSE 75,
                         (h.fs_used_blocks + 1) % 256)
            ELSE IF damage = "magic" THEN Patched(whole, 0, 80)
            ELSE IF damage = "version" THEN Patched(whole, 33, 49)
            ELSE IF damage = "marker" THEN Patched(whole, 34, 0)
            ELSE IF damage = "header crc"
            THEN Patched(whole, 106, ByteXor(whole[107], 1))
            ELSE IF damage = "bitmap"
            THEN Patched(whole, 110, ByteXor(whole[111], 64))
            ELSE IF damage = "partclone version" THEN Patched(whole, 16, 255)
            ELSE IF damage = "version 0xff" THEN Patched(whole, 30, 255)
            ELSE IF damage = "file system" THEN Patched(whole, 36, 255)
            ELSE whole
    IN  [base |-> 0, bytes |-> bytes,
         gen |-> [header |-> h, bitmap |-> bitmap, damage |-> damage]]

\* The files: headers of a writer, or with a number of used blocks that is
\* not that of the bitmap, in both byte orders, damaged or not.
HeaderFiles ==
    {HeaderFile(PartCloneHeader(bm, 8 * Len(bm), 16 * Len(bm), 2,
                                [mode |-> 32, size |-> 4, blocks |-> 1],
                                1, endian),
                bm, damage) :
        bm \in {<<22>>, <<255, 22>>, <<0, 0, 255>>},
        endian \in {"<", ">"}, damage \in HeaderDamages}
    \cup
    {HeaderFile([PartCloneHeader(bm, 8 * Len(bm), 16 * Len(bm), 2,
                                 [mode |-> 0, size |-> 0, blocks |-> 0],
                                 0, endian)
                   EXCEPT !.fs_used_blocks = 2, !.fs_used_bitmap = 2],
                bm, damage) :
        bm \in {<<22>>, <<255, 22>>},
        endian \in {"<", ">"}, damage \in HeaderDamages}

InitPartCloneHeader ==
    /\ image \in HeaderFiles
    /\ index = << >>
    /\ call = NoCall
    /\ rd = NoReader

\* PartClone(file, filename, block_offset_size)
PartCloneNew ==
    /\ call = NoCall
    /\ \E block_offset_size \in {8, 12} :
          /\ call' = [op |-> "PartClone", arg |-> block_offset_size,
                      arg2 |-> 0, result |-> None]
          /\ rd' = PartCloneInit(image, block_offset_size)
    /\ UNCHANGED <<image, index>>

SpecPartCloneHeader == InitPartCloneHeader /\ [][PartCloneNew]_vars

\* The file starts with the magic, the image version 0002 and an endian
\* marker.
WellMarked(file) ==
    /\ Bytes(file.bytes, 0, Len(PARTCLONE)) = PARTCLONE
    /\ Bytes(file.bytes, 30, 34) = <<48, 48, 48, 50>>
    /\ Bytes(file.bytes, 34, 36) \in {<<222, 192>>, <<192, 222>>}

\* The CRC stored after the first 106 bytes is that of these bytes.
HeaderCrcGood(file) ==
    LET endian == IF Bytes(file.bytes, 34, 36) = <<222, 192>> THEN "<"
                  ELSE ">"
    IN  PackL(endian, crc32(Bytes(file.bytes, 0, 106), CRC32_SEED))
           = Bytes(file.bytes, 106, 110)

\* The CRC stored after the bitmap is that of the bitmap.
BitmapCrcGood(file) ==
    LET n == Len(file.gen.bitmap) IN
    PackL(file.gen.header.endian,
          crc32(Bytes(file.bytes, 110, 110 + n), CRC32_SEED))
       = Bytes(file.bytes, 110 + n, 114 + n)

\* C24: PartClone open checks the header CRC before it acts on a
\* checksummed integer field of the header and before it reads a byte of
\* the bitmap: a header with magic, version and endian marker but another
\* CRC than that of its first 106 bytes is rejected as a header CRC
\* mismatch, whatever its checksum mode; a bitmap with another CRC than its
\* own is rejected as a bitmap CRC mismatch, before its bits are counted and
\* before an index is built.
C24_CrcCheckedFirst ==
    call.op = "PartClone" =>
        /\ (WellMarked(image) /\ ~HeaderCrcGood(image))
              => /\ rd.exc = "PartCloneException"
                 /\ rd.msg = "Header CRC mismatch"
                 /\ rd.pos = PARTCLONE_READ_SIZE
        /\ (WellMarked(image) /\ HeaderCrcGood(image)
              /\ ~BitmapCrcGood(image))
              => /\ rd.exc = "PartCloneException"
                 /\ rd.msg = "Bitmap CRC mismatch"
                 /\ index = << >>

----------------------------------------------------------------------------
(* The example of an NtfsClone index.                                      *)

\* The index of the example with the offsets p0 and p1 of its used ranges,
\* and getBlockOffset(11).
ExampleHolds(p0, p1) ==
    image \in ExampleImages =>
        /\ call.op = "buildBlockIndex" =>
              index = <<ClusterRange(FALSE, 0, 10, -1),
                        ClusterRange(TRUE, 10, 3, p0),
                        ClusterRange(FALSE, 13, 5, -1),
                        ClusterRange(TRUE, 18, 2, p1)>>
        /\ (call.op = "getBlockOffset" /\ call.arg = 11) =>
              call.result = Ok(p0 + (image.cluster_size + 1))

\* C25 as stated: for the commands [0x00, count 10], 0x01 three times,
\* [0x00, count 5], 0x01 twice, the index is the four ranges (unused, 0, 10),
\* (used, 10, 3, p0), (unused, 13, 5), (used, 18, 2, p1) with
\* p0 = offset_to_image_data + 1 and p1 = p0 + 3 * (cluster_size + 1) + 1,
\* and getBlockOffset(11) is p0 + (cluster_size + 1).
C25_ExampleAsStated ==
    ExampleHolds(image.offset_to_image_data + 1,
                 image.offset_to_image_data + 1
                    + 3 * (image.cluster_size + 1) + 1)

\* C25, amended: the same ranges with p0 = offset_to_image_data + 9 + 1 and
\* p1 = p0 + 3 * (cluster_size + 1) + 9, a [0x00, count] command being nine
\* bytes long; getBlockOffset(11) is p0 + (cluster_size + 1).
C25_ExampleIndex ==
    ExampleHolds(image.offset_to_image_data + 9 + 1,
                 image.offset_to_image_data + 9 + 1
                    + 3 * (image.cluster_size + 1) + 9)

\* getBlockOffset(11) has answered on the index of the example.
C25_Witness ==
    /\ image \in ExampleImages
    /\ call.op = "getBlockOffset" /\ call.arg = 11
    /\ call.result.status = "ok"
    /\ Len(index) = 4

----------------------------------------------------------------------------
(* The global sum of a PartImage file and its tail.                        *)

\* The tail of a file, or none.
TailOf(file) ==
    LET items == file.items IN
    IF items # << >> /\ items[Len(items)].kind = "tail"
    THEN items[Len(items)] ELSE [kind |-> "none"]

\* The sum of the bytes of the file from the end of the volume header to the
\* end of the magic of its tail.
ConsumedSum(file) ==
    SumRange(file, VOLUME_HEADER_SIZE, file.base, FALSE, 1)
        + ItemsSum(file.items, Len(file.items) - 1) + SumOf(MAGIC_BEGIN_TAIL)

\* C21: when blockReader has reached MAGIC-BEGIN-TAIL, the value it compares
\* with the stored sum is the sum of every byte of the image from the first
\* byte of the volume header on.  A file as partimage writes it, read to its
\* tail: its check records are right and the last bit of its bitmap is not
\* set.
C21_SumSinceVolumeHeader ==
    (/\ rd.pc = "done"
     /\ TailOf(image).kind = "tail" /\ image.gen.bad.at = 0
     /\ ~BitSet(image.gen.bitmap, 8 * Len(image.gen.bitmap) - 1))
        => rd.compared = <<VolumeHeaderSum + ConsumedSum(image)>>

----------------------------------------------------------------------------
(* The volumes of a PartImage image.                                       *)

\* The name of the file ends in the number of its volume, and the file of
\* the next number exists and has a volume header with the magic, that
\* number and the identifier of the file.
NextVolumeFits(file) ==
    LET f == file.next IN
    /\ EndsWith(file.name, <<".">> \o Format03(file.volume))
    /\ f.exists
    /\ f.name = SubSeq(file.name, 1, Len(file.name) - 3)
                    \o Format03(file.volume + 1)
    /\ f.size >= VOLUME_HEADER_SIZE /\ f.head = PARTIMAGE
    /\ f.volume = file.volume + 1
    /\ f.identifier = file.identifier

\* C22: when blockReader hits the end of the file in the middle of a block
\* or a check record, it goes on with the next volume if and only if the
\* name of the file ends in its volume number, the file of the next number
\* exists and its volume header has that number and the same identifier;
\* in every other case it raises and the file, the filename and the volume
\* header of the descriptor stay as they are.
C22_ResumesFromNextVolume ==
    (rd.pc = "done" /\ image.gen.cut = 1 /\ image.items # << >>)
        => IF NextVolumeFits(image) THEN rd.vol = 1
           ELSE rd.vol = 0 /\ rd.exc # ""

----------------------------------------------------------------------------
(* The specification of PartImage(file, name) for the files of the loop    *)
(* over the magic strings.                                                 *)

InitPartImageScan ==
    /\ image \in HeadersFiles
    /\ index = << >>
    /\ call = NoCall
    /\ rd = NoReader

PartImageNew ==
    /\ rd.pc = "idle"
    /\ rd' = PartImageInit(image)
    /\ UNCHANGED <<image, index, call>>

SpecPartImageScan == InitPartImageScan /\ [][PartImageNew]_vars

\* The magic strings of a file with their offsets, in the order of the file.
IsMagic(seg) ==
    /\ seg.kind = "text" /\ seg.len >= Len(MAGIC_BEGIN)
    /\ SubSeq(seg.bytes, 1, Len(MAGIC_BEGIN)) = MAGIC_BEGIN

RECURSIVE SentinelsFrom(_, _)
SentinelsFrom(file, i) ==
    IF i > Len(file.segs) THEN << >>
    ELSE (IF IsMagic(file.segs[i])
          THEN <<[name |-> file.segs[i].bytes, at |-> file.starts[i]]>>
          ELSE << >>) \o SentinelsFrom(file, i + 1)

\* The segment names for which __init__ took one of its branches.
IsDispatched(n) ==
    n.name \in {MAGIC_BEGIN_LOCALHEADER, MAGIC_BEGIN_BITMAP, MAGIC_BEGIN_INFO,
                MAGIC_BEGIN_DATABLOCKS}

\* C30: when PartImage.__init__ is done with a file whose bitmap does not
\* begin with a digit or a capital letter, it has recognised and dispatched
\* each of the magic strings LOCALHEADER, BITMAP, INFO and DATABLOCKS once,
\* in the order of the file, wherever they lie in the buffers read.
C30_EverySentinelDispatched ==
    (rd.pc = "done" /\ image.gen.size = "whole" /\ ~Alnum(image.gen.bmbyte))
        => /\ rd.exc = ""
           /\ SelectSeq(rd.names, IsDispatched) = SentinelsFrom(image, 1)

====
